---------------------------- MODULE Spec2Model ----------------------------
(***************************************************************************)
(* Transcript intelligence: the growth engine (growth.py), the heuristic   *)
(* transcript extractor (extractor/heuristic.py), the store (db.py) and    *)
(* the request handler (server.py).                                        *)
(*                                                                         *)
(* Numbers.  The engine computes in Python floats.  Every value it forms   *)
(* is a rational with a small denominator, so the model keeps it as a      *)
(* pair <<n, d>> (d > 0) and compares and rounds exactly.  A double        *)
(* differs from the rational it stands for by far less than the distance   *)
(* between two such rationals, so the only place the double can decide     *)
(* otherwise is round() of an exact half: there Python rounds half to even *)
(* when the double evaluation is exact (all intermediate quotients are     *)
(* dyadic), and to either neighbour when it is not.  The model keeps both  *)
(* neighbours in that case (parameter fp).                                 *)
(***************************************************************************)
EXTENDS Integers, Sequences, FiniteSets, TLC

VARIABLES
  gIn,      \* growth probe: the arguments of update_mastery_and_confidence
  gOut,     \* growth probe: <<>> before the call, <<result>> after it
  tIn,      \* text probe: the transcript text, a sequence of tokens
  tOut,     \* text probe: <<>> before the call, <<result>> after it
  xIn,      \* extraction probe: the request handed to extract_session
  xOut,     \* extraction probe: <<>> before the call, <<result>> after it
  extractor,  \* <<>>, or <<the HeuristicTranscriptExtractor instance>>: its fields
  heap,       \* the dict objects of the callers and of the calls: object k has id k
  calls,      \* the calls made on the extractor, in order
  rounding,   \* how this platform rounds an inexact half (see FPChoices)
  student,              \* table student: row k has id k
  goal,                 \* table goal
  topic,                \* table topic
  session,              \* table session
  topic_mastery_event,  \* table topic_mastery_event
  mental_block,         \* table mental_block
  response              \* the last response sent: [status, data]

gvars == <<gIn, gOut>>

tvars == <<tIn, tOut>>

ovars == <<extractor, heap, calls, rounding>>

xvars == <<xIn, xOut, extractor, heap, calls, rounding>>

svars == <<student, goal, topic, session, topic_mastery_event, mental_block, response>>

vars == <<gIn, gOut, tIn, tOut, xIn, xOut, extractor, heap, calls, rounding, student, goal, topic, session, topic_mastery_event,
          mental_block, response>>

(***************************************************************************)
(* Bounds of the model                                                     *)
(***************************************************************************)
MaxCount == 2
MaxAnyCount == 2
ClampSpan == 13
MaxTextLen == 6

(***************************************************************************)
(* Arithmetic helpers                                                      *)
(***************************************************************************)
Max(a, b) == IF a >= b THEN a ELSE b

Min(a, b) == IF a <= b THEN a ELSE b

Abs(a) == IF a >= 0 THEN a ELSE 0 - a

RECURSIVE Gcd(_, _)
Gcd(a, b) == IF b = 0 THEN a ELSE Gcd(b, a % b)

RECURSIVE IsPow2(_)
IsPow2(n) == IF n = 1 THEN TRUE ELSE IF n < 1 \/ n % 2 = 1 THEN FALSE ELSE IsPow2(n \div 2)

\* p / q (p >= 0, q > 0) is a dyadic rational: a double holds it exactly.
IsDyadic(p, q) == IsPow2(q \div Gcd(q, p))

(***************************************************************************)
(* growth.py                                                               *)
(***************************************************************************)
clamp_int_no_upper(value, lo, hi) == Max(lo, value)

clamp_int(value, lo, hi) == Max(lo, Min(hi, value))

clamp_float_no_upper(value, lo, hi) ==
  IF lo * value[2] > value[1] THEN <<lo, 1>> ELSE value

\* value is a rational <<n, d>>; lo and hi are integers.
clamp_float(value, lo, hi) ==
  LET m == IF hi * value[2] < value[1] THEN <<hi, 1>> ELSE value
  IN IF lo * m[2] > m[1] THEN <<lo, 1>> ELSE m

\* int(round(x)) of the rational x = <<n, d>>.  exact: the double holds x
\* itself, so an exact half goes to the even neighbour; otherwise the half
\* goes up when up holds and down when it does not.
py_round_below(x, exact, up) == (2 * x[1] - x[2]) \div (2 * x[2])

py_round(x, exact, up) ==
  LET q == x[1] \div x[2]
      r == x[1] - q * x[2]
  IN IF 2 * r < x[2] THEN q
     ELSE IF 2 * r > x[2] THEN q + 1
     ELSE IF exact THEN (IF q % 2 = 0 THEN q ELSE q + 1)
     ELSE IF up THEN q + 1 ELSE q

\* Weights are numerators over scale (2.5 is 5 over 2).
GrowthConfig ==
  [ scale |-> 2,
    improvement_weight |-> 2,
    error_penalty |-> 5,
    repeated_error_penalty |-> 8,
    independent_bonus |-> 4,
    confidence_positive_weight |-> 8,
    confidence_negative_weight |-> 12,
    max_session_delta |-> 12,
    min_session_delta |-> -12,
    mental_block_session_threshold |-> 3,
    mental_block_base_severity |-> 35,
    mental_block_repeat_delta |-> 15,
    mental_block_avoidance_bonus |-> 15 ]

ZeroSignals ==
  [ attempt_count |-> 0, error_count |-> 0, repeated_error_count |-> 0,
    independent_count |-> 0, hint_count |-> 0,
    confidence_positive |-> 0, confidence_negative |-> 0 ]

FPChoices == [m : BOOLEAN, c : BOOLEAN]

NoFP == [m |-> FALSE, c |-> FALSE]

\* 1.0 / (1.0 + hint_count / max(1, error_count)), as a rational
correction_speed_of(hint_count, error_count) ==
  <<Max(1, error_count), Max(1, error_count) + hint_count>>

\* independent_count / max(1, attempt_count), as a rational
independence_of(independent_count, attempt_count) ==
  <<independent_count, Max(1, attempt_count)>>

\* improvement_factor + independent_bonus - error_penalty - repeated_error_penalty,
\* the last three being numerators over S, the first a rational over den.
raw_delta_broken(improvement_factor, independent_bonus, error_penalty, repeated_error_penalty, S) ==
  << improvement_factor[1]
       + (0 - independent_bonus - error_penalty - repeated_error_penalty)
         * (improvement_factor[2] \div S),
     improvement_factor[2] >>

raw_delta_of(improvement_factor, independent_bonus, error_penalty, repeated_error_penalty, S) ==
  << improvement_factor[1]
       + (independent_bonus - error_penalty - repeated_error_penalty)
         * (improvement_factor[2] \div S),
     improvement_factor[2] >>

update_mastery_and_confidence(previous_mastery, previous_confidence, signals, config, fp) ==
  LET attempt_count == signals.attempt_count
      error_count == signals.error_count
      repeated_error_count == signals.repeated_error_count
      independent_count == signals.independent_count
      hint_count == signals.hint_count
      confidence_pos == signals.confidence_positive
      confidence_neg == signals.confidence_negative
      S == config.scale
      denom_errors == Max(1, error_count)
      correction_speed == correction_speed_of(hint_count, error_count)
      independence == independence_of(independent_count, attempt_count)
      improvement_factor ==
        << 10 * config.improvement_weight * correction_speed[1] * independence[1],
           S * correction_speed[2] * independence[2] >>
      repeated_error_penalty == <<config.repeated_error_penalty * repeated_error_count, S>>
      error_penalty == <<config.error_penalty * error_count, S>>
      independent_bonus == <<config.independent_bonus * independent_count, S>>
      raw_delta == raw_delta_of(improvement_factor, independent_bonus[1],
                                error_penalty[1], repeated_error_penalty[1], S)
      bounded_delta == clamp_float(raw_delta, config.min_session_delta, config.max_session_delta)
      exact_q == /\ IsDyadic(hint_count, denom_errors)
                 /\ IsDyadic(correction_speed[1], correction_speed[2])
                 /\ IsDyadic(independence[1], independence[2])
                 /\ IsPow2(S)
      mastery_delta == py_round(bounded_delta, exact_q, fp.m)
      new_mastery == clamp_int(previous_mastery + mastery_delta, 0, 100)
      raw_conf_delta ==
        << (confidence_pos * config.confidence_positive_weight
              - confidence_neg * config.confidence_negative_weight) * independence[2]
             + 6 * independence[1] * S
             - 2 * error_count * S * independence[2],
           S * independence[2] >>
      exact_c == IsDyadic(independence[1], independence[2]) /\ IsPow2(S)
      conf_delta == py_round(clamp_float(raw_conf_delta, -12, 12), exact_c, fp.c)
      new_confidence == clamp_int(previous_confidence + conf_delta, 0, 100)
      explanation ==
        [ formula |-> "new = clamp(prev + round(delta), 0, 100)",
          delta_components |->
            [ improvement_factor |-> improvement_factor,
              independent_bonus |-> independent_bonus,
              error_penalty |-> error_penalty,
              repeated_error_penalty |-> repeated_error_penalty ],
          derived_signals |->
            [ correction_speed |-> correction_speed,
              independence |-> independence ],
          bounded_delta |-> bounded_delta,
          mastery_delta |-> mastery_delta,
          confidence_delta |-> conf_delta,
          signals_used |->
            [ attempt_count |-> attempt_count,
              error_count |-> error_count,
              repeated_error_count |-> repeated_error_count,
              independent_count |-> independent_count,
              hint_count |-> hint_count,
              confidence_positive |-> confidence_pos,
              confidence_negative |-> confidence_neg ] ]
  IN [ new_mastery |-> new_mastery,
       new_confidence |-> new_confidence,
       explanation |-> explanation ]

(***************************************************************************)
(* Text.  A transcript is a sequence of tokens: a token is a run of        *)
(* characters the patterns of heuristic.py never match across or split,    *)
(* that is a white-space character, a colon, a speaker word, or a word or  *)
(* phrase of the lexicon below.                                            *)
(***************************************************************************)
NL == "\n"

SP == " "

IsSpace(tok) == tok \in {SP, NL}

\* The words (Tutor|Student|Parent) matches under re.IGNORECASE, with their
\* str.title() form.
SpeakerTitle(tok) ==
  CASE tok \in {"Tutor", "tutor", "TUTOR"} -> "Tutor"
    [] tok \in {"Student", "student", "STUDENT"} -> "Student"
    [] tok \in {"Parent", "parent", "PARENT"} -> "Parent"
    [] OTHER -> "Unknown"

IsSpeakerWord(tok) == SpeakerTitle(tok) # "Unknown"

RECURSIVE rstrip(_)
rstrip(text) ==
  IF text = <<>> THEN <<>>
  ELSE IF IsSpace(text[Len(text)]) THEN rstrip(SubSeq(text, 1, Len(text) - 1))
  ELSE text

RECURSIVE lstrip(_)
lstrip(text) ==
  IF text = <<>> THEN <<>>
  ELSE IF IsSpace(text[1]) THEN lstrip(Tail(text))
  ELSE text

strip(text) == lstrip(rstrip(text))

\* re.sub(r"\s+", " ", text): every run of white space becomes one space.
RECURSIVE collapse_spaces(_)
collapse_spaces(text) ==
  IF text = <<>> THEN <<>>
  ELSE IF IsSpace(text[1])
    THEN <<SP>> \o collapse_spaces(lstrip(text))
    ELSE <<text[1]>> \o collapse_spaces(Tail(text))

norm(text) == collapse_spaces(strip(text))

\* str.splitlines(): a line ends at each line break; what follows the last
\* break is a line only when it is not empty.
RECURSIVE splitlines_from(_, _)
splitlines_from(text, cur) ==
  IF text = <<>> THEN (IF cur = <<>> THEN <<>> ELSE <<cur>>)
  ELSE IF text[1] = NL THEN <<cur>> \o splitlines_from(Tail(text), <<>>)
  ELSE splitlines_from(Tail(text), Append(cur, text[1]))

splitlines(text) == splitlines_from(text, <<>>)

\* speaker_re.match(line): ^\s*(Tutor|Student|Parent)\s*:\s*(.*)$
speaker_match(line) ==
  LET a == lstrip(line)
      b == IF a = <<>> THEN <<>> ELSE lstrip(Tail(a))
  IN IF a # <<>> /\ IsSpeakerWord(a[1]) /\ b # <<>> /\ b[1] = ":"
       THEN [matched |-> TRUE, speaker |-> SpeakerTitle(a[1]), text |-> lstrip(Tail(b))]
       ELSE [matched |-> FALSE, speaker |-> "Unknown", text |-> <<>>]

append_line_joined(text, line) == text \o line

\* current["text"] += "\n" + line
append_line(text, line) == text \o <<NL>> \o line

flush_always(turns, current) ==
  Append(turns, [speaker |-> current.speaker, text |-> norm(current.text)])

\* if current["text"].strip(): turns.append({speaker, _norm(text)})
flush(turns, current) ==
  IF strip(current.text) # <<>>
    THEN Append(turns, [speaker |-> current.speaker, text |-> norm(current.text)])
    ELSE turns

RECURSIVE split_turns_loop(_, _, _)
split_turns_loop(raw_lines, turns, current) ==
  IF raw_lines = <<>> THEN flush(turns, current)
  ELSE LET line == raw_lines[1]
           m == speaker_match(line)
       IN IF m.matched
            THEN split_turns_loop(Tail(raw_lines), flush(turns, current),
                                  [speaker |-> m.speaker, text |-> m.text])
            ELSE split_turns_loop(Tail(raw_lines), turns,
                                  [current EXCEPT !.text = append_line(@, line)])

\* _split_turns with the Unknown turn given to every text without a turn
split_turns_unguarded(text) ==
  LET lines == splitlines(text)
      raw_lines == [k \in 1 .. Len(lines) |-> rstrip(lines[k])]
      turns == split_turns_loop(raw_lines, <<>>, [speaker |-> "Unknown", text |-> <<>>])
  IN IF turns = <<>>
       THEN << [speaker |-> "Unknown", text |-> norm(text)] >>
       ELSE turns

split_turns(text) ==
  LET lines == splitlines(text)
      raw_lines == [k \in 1 .. Len(lines) |-> rstrip(lines[k])]
      turns == split_turns_loop(raw_lines, <<>>, [speaker |-> "Unknown", text |-> <<>>])
  IN IF turns = <<>> /\ strip(text) # <<>>
       THEN << [speaker |-> "Unknown", text |-> norm(text)] >>
       ELSE turns

(***************************************************************************)
(* extractor/heuristic.py: the taxonomy and the lexical tests.             *)
(*                                                                         *)
(* A text is a sequence of tokens.  A token is a word, a phrase or a       *)
(* punctuation mark; Lex gives what the extractor's patterns find inside   *)
(* it (keyword occurrences per topic, regular-expression matches, its      *)
(* length in characters).  Tokens are separated by spaces, line breaks or  *)
(* punctuation, and no pattern of the extractor matches across two of the  *)
(* tokens used here, so a count over a text is the sum over its tokens.    *)
(***************************************************************************)
\* Python's None where a name or a number may stand, and where a text may.
None == "None"

NoText == <<None>>

TOPIC_TAXONOMY ==
  << [parent |-> "Arithmetic",
      children |-> <<"Fractions", "Decimals", "Percents", "Integers", "Ratios & Rates">>],
     [parent |-> "Algebra",
      children |-> <<"Expressions", "Equations", "Linear Equations", "Functions",
                     "Exponents & Radicals", "Quadratics">>],
     [parent |-> "Geometry",
      children |-> <<"Angles", "Triangles", "Circles", "Area & Perimeter",
                     "Coordinate Geometry">>],
     [parent |-> "Data & Probability", children |-> <<"Statistics", "Probability">>],
     [parent |-> "Word Problems", children |-> <<"Translation">>] >>

Range(seq) == { seq[k] : k \in 1 .. Len(seq) }

ParentNames == { TOPIC_TAXONOMY[k].parent : k \in 1 .. Len(TOPIC_TAXONOMY) }

ChildrenOf(parent) ==
  IF parent \in ParentNames
    THEN (CHOOSE e \in Range(TOPIC_TAXONOMY) : e.parent = parent).children
    ELSE <<>>

TopicNames == UNION { Range(ChildrenOf(parent)) : parent \in ParentNames }

ParentOf ==
  [ topic_name \in TopicNames |->
      CHOOSE parent \in ParentNames : topic_name \in Range(ChildrenOf(parent)) ]

\* server.py _topic_parent_lookup
topic_parent_lookup(topic_name) ==
  IF topic_name \in TopicNames THEN ParentOf[topic_name] ELSE None

\* The order of Python's str comparison (and of SQLite's BINARY collation) on
\* the names the program sorts.
SortedNames ==
  << "Algebra", "Angles", "Area & Perimeter", "Arithmetic", "Circles",
     "Coordinate Geometry", "Data & Probability", "Decimals", "Equations",
     "Exponents & Radicals", "Expressions", "Fractions", "Functions", "Geometry",
     "Integers", "Linear Equations", "Percents", "Probability", "Quadratics",
     "Ratios & Rates", "Statistics", "Translation", "Triangles", "Word Problems" >>

NameRanks ==
  [ name \in { SortedNames[k] : k \in 1 .. Len(SortedNames) } |->
      CHOOSE k \in 1 .. Len(SortedNames) : SortedNames[k] = name ]

NameRank(name) == NameRanks[name]

RECURSIVE SetToSeq(_)
SetToSeq(S) ==
  IF S = {} THEN <<>>
  ELSE LET x == CHOOSE y \in S : TRUE IN <<x>> \o SetToSeq(S \ {x})

\* sorted(names)
SortedNameSeq(S) == SortSeq(SetToSeq(S), LAMBDA a, b : NameRank(a) < NameRank(b))

Take(seq, n) == SubSeq(seq, 1, Min(n, Len(seq)))

RECURSIVE SumSeq(_)
SumSeq(seq) == IF seq = <<>> THEN 0 ELSE seq[1] + SumSeq(Tail(seq))

RECURSIVE FilterSeq(_, _)
FilterSeq(seq, S) ==
  IF seq = <<>> THEN <<>>
  ELSE (IF seq[1] \in S THEN <<seq[1]>> ELSE <<>>) \o FilterSeq(Tail(seq), S)

\* A token in which no pattern of the extractor matches, n characters long.
Plain(n) ==
  [ len |-> n, kw |-> <<>>, frac |-> FALSE, pct |-> FALSE, eq |-> FALSE,
    neg |-> 0, pos |-> 0, avoid |-> 0, mis |-> {}, strengths |-> {},
    hint |-> FALSE, q |-> FALSE, answerish |-> FALSE, numeric |-> FALSE,
    goal |-> FALSE, struggle |-> FALSE ]

\* What the extractor's patterns find in a token:
\*   kw         occurrences of a topic's keywords (TOPIC_TAXONOMY), per topic
\*   frac, pct, eq   the a/b pattern, a "%", the x = n pattern
\*   neg, pos, avoid   matches of NEGATIVE_CONFIDENCE_PATTERNS,
\*              POSITIVE_CONFIDENCE_PATTERNS, AVOIDANCE_PATTERNS
\*   mis, strengths   labels of the misconception and strength patterns
\*   hint, q, answerish, numeric   hint_re, a "?", answerish_re, numeric_answer_re
\*   goal, struggle   GOAL_CUES, STRUGGLE_CUES
LexOf(tok) ==
  CASE tok = "Tutor" -> Plain(5)
    [] tok = "Student" -> Plain(7)
    [] tok = "student" -> Plain(7)
    [] tok = "Parent" -> Plain(6)
    [] tok = "hi" -> Plain(2)
    [] tok = "Add" -> Plain(3)
    [] tok = "and" -> Plain(3)
    [] tok = "SAT" -> Plain(3)
    [] tok = "hello" -> Plain(5)
    [] tok = "?" -> [Plain(1) EXCEPT !.q = TRUE]
    [] tok \in {"1/4", "1/2", "1/3", "1/6"} ->
         [Plain(3) EXCEPT !.frac = TRUE, !.numeric = TRUE]
    [] tok = "I think you add the denominators" ->
         [Plain(32) EXCEPT !.kw = ("Fractions" :> 1),
            !.mis = {"Adds denominators when working with fractions"}]
    [] tok = "hint" -> [Plain(4) EXCEPT !.hint = TRUE]
    [] tok = "common denominator" -> [Plain(18) EXCEPT !.kw = ("Fractions" :> 2)]
    [] tok = "got it" ->
         [Plain(6) EXCEPT !.pos = 1, !.strengths = {"Understands after explanation"}]
    [] tok = "not sure" -> [Plain(8) EXCEPT !.neg = 1]
    [] tok = "I hate" -> [Plain(6) EXCEPT !.avoid = 1]
    [] tok = "fractions" -> [Plain(9) EXCEPT !.kw = ("Fractions" :> 1)]
    [] tok = "x = 3" ->
         [Plain(5) EXCEPT !.kw = ("Equations" :> 1), !.eq = TRUE,
            !.answerish = TRUE, !.numeric = TRUE]
    [] tok = "Our goal is to get better at" -> [Plain(28) EXCEPT !.goal = TRUE]
    [] tok = "I get stuck with negative numbers" ->
         [Plain(33) EXCEPT !.kw = ("Integers" :> 1), !.neg = 1]
    [] tok = "We'll improve" -> [Plain(13) EXCEPT !.goal = TRUE]
    [] tok = "equations" -> [Plain(9) EXCEPT !.kw = ("Equations" :> 1)]
    [] tok = "decimals" -> [Plain(8) EXCEPT !.kw = ("Decimals" :> 1)]
    [] tok = "forgot the negative" ->
         [Plain(19) EXCEPT !.kw = ("Integers" :> 1),
            !.mis = {"Sign error with negatives"}]
    [] OTHER -> Plain(1)

\* The tokens of the texts of this model, and Lex tabulated over them.
Tokens ==
  { NL, SP, ":", ".", "+", "?", "Tutor", "Student", "student", "Parent", "hi", "Add",
    "and", "SAT", "hello", "1/4", "1/2", "1/3", "1/6",
    "I think you add the denominators", "hint", "common denominator", "got it",
    "not sure", "I hate", "fractions", "x = 3", "Our goal is to get better at",
    "I get stuck with negative numbers", "We'll improve", "equations", "decimals",
    "forgot the negative" }

LexTable == [tok \in Tokens |-> LexOf(tok)]

Lex(tok) == IF tok \in Tokens THEN LexTable[tok] ELSE LexOf(tok)

\* What the patterns find in each token of a text.
lexed(text) == [k \in 1 .. Len(text) |-> Lex(text[k])]

\* len(text), for the lexed text
TextLen(lx) == SumSeq([k \in 1 .. Len(lx) |-> lx[k].len])

\* _count_any(patterns, text), patterns named by their field of Lex
count_any(patterns, lx) == SumSeq([k \in 1 .. Len(lx) |-> lx[k][patterns]])

\* re.search(pattern, text), pattern named by its field of Lex
search(pattern, lx) == \E k \in 1 .. Len(lx) : lx[k][pattern]

\* text_l.count(kw_l) summed over the keywords of a topic
keyword_count(topic_name, lx) ==
  SumSeq([k \in 1 .. Len(lx) |->
            IF topic_name \in DOMAIN lx[k].kw THEN lx[k].kw[topic_name] ELSE 0])

\* The topics that the regular expressions of lines 149-165 and 432-437 add.
structural_hits(topic_name, lx) ==
  (IF topic_name = "Fractions" /\ search("frac", lx) THEN 2 ELSE 0)
  + (IF topic_name = "Percents" /\ search("pct", lx) THEN 1 ELSE 0)
  + (IF topic_name = "Equations" /\ search("eq", lx) THEN 1 ELSE 0)

\* The topics with a keyword in the text or added by a regular expression.
hit_topics(lx) ==
  UNION { DOMAIN lx[k].kw : k \in 1 .. Len(lx) }
    \cup (IF search("frac", lx) THEN {"Fractions"} ELSE {})
    \cup (IF search("pct", lx) THEN {"Percents"} ELSE {})
    \cup (IF search("eq", lx) THEN {"Equations"} ELSE {})

\* _detect_topics_in_text: topic name -> score, for the topics hit at least
\* once (the list of the keywords hit is left out).
detect_topics_in_text(lx) ==
  [ t \in hit_topics(lx) |->
      [ topic_name |-> t, parent_topic |-> topic_parent_lookup(t),
        hit_count |-> keyword_count(t, lx) + structural_hits(t, lx) ] ]

\* sorted(topic_scores.values(), key=(-hit_count, topic_name))
ranked_scores(topic_scores) ==
  SortSeq(SetToSeq({ topic_scores[t] : t \in DOMAIN topic_scores }),
          LAMBDA a, b : \/ a.hit_count > b.hit_count
                        \/ /\ a.hit_count = b.hit_count
                           /\ NameRank(a.topic_name) < NameRank(b.topic_name))

\* The misconception and strength patterns, in the order they are tried.
misconception_labels ==
  << "Adds denominators when working with fractions",
     "Uses cross-multiplication incorrectly or in the wrong context",
     "Sign error with negatives",
     "Distribution mistakes (missed a term or sign)" >>

strength_labels ==
  << "Understands after explanation",
     "Completes problems to a final answer",
     "Shows self-checking behavior" >>

\* The labels whose pattern matches somewhere in the text, in pattern order.
labels_found(labels, field, lx) ==
  FilterSeq(labels, UNION { lx[k][field] : k \in 1 .. Len(lx) })

(***************************************************************************)
(* extractor/heuristic.py: extract_session                                 *)
(***************************************************************************)
\* The window of recent sessions read for repeated errors, the one read for
\* mental blocks, and the cuts of the topic lists.
RepeatWindow == 10
BlockWindow == 25
MaxDetectedTopics == 8
MaxTargets == 3
MaxAnswerLen == 60
DefaultMastery == 15
DefaultConfidence == 50

\* The topics a turn is attributed to (lines 427-440).
matched_topics(lx) == hit_topics(lx)

\* looks_like_final_answer (lines 462-464); lx is the turn's text, lexed.
looks_like_final_answer(ttext, lx) ==
  \/ search("answerish", lx)
  \/ /\ search("numeric", lx)
     /\ TextLen(lx) <= MaxAnswerLen
     /\ NL \notin Range(ttext)

\* neg_re.search(ttext) or "?" in ttext (lines 457 and 465)
is_error(lx) == count_any("neg", lx) > 0 \/ search("q", lx)

turn_signals_any_speaker(sig, turn, lx) ==
  [sig EXCEPT
     !.attempt_count = @ + 1,
     !.error_count = @ + (IF is_error(lx) THEN 1 ELSE 0),
     !.confidence_negative = @ + (IF is_error(lx) THEN 1 ELSE 0),
     !.confidence_positive = @ + (IF count_any("pos", lx) > 0 THEN 1 ELSE 0),
     !.independent_count =
       @ + (IF looks_like_final_answer(turn.text, lx) /\ ~is_error(lx) THEN 1 ELSE 0)]

\* a Tutor turn that reads as a final answer counted as an independent
\* completion
turn_signals_tutor_answers(sig, turn, lx) ==
  IF turn.speaker = "Tutor"
    THEN [sig EXCEPT
            !.hint_count = @ + (IF search("hint", lx) THEN 1 ELSE 0),
            !.independent_count =
              @ + (IF looks_like_final_answer(turn.text, lx) /\ ~is_error(lx) THEN 1 ELSE 0)]
    ELSE turn_signals_any_speaker(sig, turn, lx)

\* The signals of one matched topic after one more turn (lines 450-466); lx
\* is the turn's text, lexed.
\* a turn that reads as a final answer counted as an independent completion
\* even when it is also counted as an error
turn_signals_error_answers(sig, turn, lx) ==
  IF turn.speaker = "Tutor"
    THEN [sig EXCEPT !.hint_count = @ + (IF search("hint", lx) THEN 1 ELSE 0)]
    ELSE [sig EXCEPT
            !.attempt_count = @ + 1,
            !.error_count = @ + (IF is_error(lx) THEN 1 ELSE 0),
            !.confidence_negative = @ + (IF is_error(lx) THEN 1 ELSE 0),
            !.confidence_positive = @ + (IF count_any("pos", lx) > 0 THEN 1 ELSE 0),
            !.independent_count =
              @ + (IF looks_like_final_answer(turn.text, lx) THEN 1 ELSE 0)]

turn_signals(sig, turn, lx) ==
  IF turn.speaker = "Tutor"
    THEN [sig EXCEPT !.hint_count = @ + (IF search("hint", lx) THEN 1 ELSE 0)]
    ELSE [sig EXCEPT
            !.attempt_count = @ + 1,
            !.error_count = @ + (IF is_error(lx) THEN 1 ELSE 0),
            !.confidence_negative = @ + (IF is_error(lx) THEN 1 ELSE 0),
            !.confidence_positive = @ + (IF count_any("pos", lx) > 0 THEN 1 ELSE 0),
            !.independent_count =
              @ + (IF looks_like_final_answer(turn.text, lx) /\ ~is_error(lx) THEN 1 ELSE 0)]

\* One pass of the loop over the turns (lines 423-466).
signals_after_turn(per_topic_signals, turn, lx) ==
  [ t \in DOMAIN per_topic_signals |->
      IF t \in matched_topics(lx) THEN turn_signals(per_topic_signals[t], turn, lx)
      ELSE per_topic_signals[t] ]

\* The loop over the turns (lines 423-466).
RECURSIVE signals_of_turns(_, _)
signals_of_turns(turns, per_topic_signals) ==
  IF turns = <<>> THEN per_topic_signals
  ELSE signals_of_turns(Tail(turns),
                        signals_after_turn(per_topic_signals, turns[1], lexed(turns[1].text)))

\* The misconceptions recorded in the first n of the recent sessions, with
\* repetitions (lines 469-472, 548-551).
RECURSIVE recorded_misconceptions(_)
recorded_misconceptions(sessions) ==
  IF sessions = <<>> THEN <<>>
  ELSE sessions[1].detected_misconceptions \o recorded_misconceptions(Tail(sessions))

occurrences(seq, x) == Cardinality({ k \in 1 .. Len(seq) : seq[k] = x })

\* known_topic_by_name.get(name): the last known row of that name.
known_by_name(known_topics, name) ==
  LET rows == { k \in 1 .. Len(known_topics) : known_topics[k].topic_name = name }
  IN known_topics[CHOOSE k \in rows : \A j \in rows : j <= k]

is_known(known_topics, name) == \E k \in 1 .. Len(known_topics) : known_topics[k].topic_name = name

\* x or d, for an integer x
or_else(x, d) == IF x = 0 THEN d ELSE x

\* _topic_sort_key: int(known.get(name, {}).get("mastery_score") or 15)
topic_sort_key(known_topics, name) ==
  IF is_known(known_topics, name)
    THEN or_else(known_by_name(known_topics, name).mastery_score, DefaultMastery)
    ELSE DefaultMastery

sorted_by_key(known_topics, names) ==
  SortSeq(SetToSeq(names),
          LAMBDA a, b : \/ topic_sort_key(known_topics, a) < topic_sort_key(known_topics, b)
                        \/ /\ topic_sort_key(known_topics, a) = topic_sort_key(known_topics, b)
                           /\ NameRank(a) < NameRank(b))

\* The recommended targets (lines 536-543).
recommend(known_topics, detected_topics) ==
  LET rec == Take(sorted_by_key(known_topics, Range(detected_topics)), MaxTargets)
      known_names == { known_topics[k].topic_name : k \in 1 .. Len(known_topics) }
      all_known == sorted_by_key(known_topics, known_names \ Range(rec))
  IN IF Len(rec) < MaxTargets THEN rec \o Take(all_known, MaxTargets - Len(rec)) ELSE rec

\* The candidates counted over every recent session handed in
candidates_of_unwindowed(detected_misconceptions, recent_sessions, avoidance, config) ==
  LET recorded == recorded_misconceptions(recent_sessions)
      session_count(m) == occurrences(recorded, m) + 1
      bonus == IF avoidance > 0 THEN config.mental_block_avoidance_bonus ELSE 0
      kept == { m \in Range(detected_misconceptions) :
                  session_count(m) >= config.mental_block_session_threshold \/ avoidance > 0 }
      found == FilterSeq(detected_misconceptions, kept)
  IN [ k \in 1 .. Len(found) |->
         [ description |-> found[k],
           session_count |-> session_count(found[k]),
           avoidance_signals |-> avoidance,
           initial_severity |-> config.mental_block_base_severity + bonus,
           repeat_severity_delta |-> config.mental_block_repeat_delta + bonus ] ]

\* The mental-block candidates (lines 546-565).
candidates_of(detected_misconceptions, recent_sessions, avoidance, config) ==
  LET recorded == recorded_misconceptions(Take(recent_sessions, BlockWindow))
      session_count(m) == occurrences(recorded, m) + 1
      bonus == IF avoidance > 0 THEN config.mental_block_avoidance_bonus ELSE 0
      kept == { m \in Range(detected_misconceptions) :
                  session_count(m) >= config.mental_block_session_threshold \/ avoidance > 0 }
      found == FilterSeq(detected_misconceptions, kept)
  IN [ k \in 1 .. Len(found) |->
         [ description |-> found[k],
           session_count |-> session_count(found[k]),
           avoidance_signals |-> avoidance,
           initial_severity |-> config.mental_block_base_severity + bonus,
           repeat_severity_delta |-> config.mental_block_repeat_delta + bonus ] ]

\* s or d, for an optional text
text_or(s, d) == IF s = NoText \/ s = <<>> THEN d ELSE s

\* What extract_session reads off the transcript alone (lines 347-379 and
\* 421); lx is the text, lexed.
transcript_facts(text, lx) ==
  [ turns |-> split_turns(text),
    ranked |-> ranked_scores(detect_topics_in_text(lx)),
    confidence_neg |-> count_any("neg", lx),
    confidence_pos |-> count_any("pos", lx),
    avoidance |-> count_any("avoid", lx),
    detected_misconceptions |-> labels_found(misconception_labels, "mis", lx),
    detected_strengths |-> labels_found(strength_labels, "strengths", lx) ]

\* detected_topics (line 351)
detected_topics_of(ranked) ==
  Take([k \in 1 .. Len(ranked) |-> ranked[k].topic_name], MaxDetectedTopics)

\* The topics given zero signals before the turns are read (lines 384-410).
seeded_topics(known_topics, detected_topics) ==
  { known_topics[k].topic_name : k \in 1 .. Len(known_topics) } \cup Range(detected_topics)

\* The repeats counted over every recent session handed in
repeated_errors_unwindowed(detected_misconceptions, recent_sessions) ==
  Cardinality({ k \in 1 .. Len(detected_misconceptions) :
                  occurrences(recorded_misconceptions(recent_sessions),
                              detected_misconceptions[k]) > 0 })

\* The number of detected misconceptions that a recent session recorded
\* (lines 469-475).
repeated_errors(detected_misconceptions, recent_sessions) ==
  Cardinality({ k \in 1 .. Len(detected_misconceptions) :
                  occurrences(recorded_misconceptions(Take(recent_sessions, RepeatWindow)),
                              detected_misconceptions[k]) > 0 })

\* The repeat penalty on every detected topic (lines 476-479).
with_repeats(per_topic_signals, detected, repeated) ==
  [ t \in DOMAIN per_topic_signals |->
      IF t \in detected
        THEN [per_topic_signals[t] EXCEPT !.repeated_error_count = @ + repeated]
        ELSE per_topic_signals[t] ]

\* The signals of every seeded topic after the turns and the repeat penalty
\* (lines 384-479).
session_signals(req, facts) ==
  with_repeats(
    signals_of_turns(
      facts.turns,
      [ t \in seeded_topics(req.known_topics, detected_topics_of(facts.ranked)) |->
          ZeroSignals ]),
    Range(detected_topics_of(facts.ranked)),
    repeated_errors(facts.detected_misconceptions, req.recent_sessions))

signal_total(sig) ==
  sig.attempt_count + sig.error_count + sig.hint_count + sig.independent_count
  + sig.repeated_error_count + sig.confidence_positive + sig.confidence_negative

\* The previous scores of a topic handed to the engine (lines 507-510): the
\* known row's, or 15 and 50 for a topic not known yet.
previous_scores_absolute(known_topics, name) ==
  [mastery_score |-> 0, confidence_score |-> 0]

previous_scores(known_topics, name) ==
  IF is_known(known_topics, name)
    THEN [ mastery_score |-> known_by_name(known_topics, name).mastery_score,
           confidence_score |-> known_by_name(known_topics, name).confidence_score ]
    ELSE [ mastery_score |-> DefaultMastery, confidence_score |-> DefaultConfidence ]

\* One entry of per_topic_updates (lines 511-517).
topic_update(topic_name, prev, r) ==
  [ topic_name |-> topic_name,
    previous_mastery |-> prev.mastery_score,
    new_mastery |-> r.new_mastery,
    previous_confidence |-> prev.confidence_score,
    new_confidence |-> r.new_confidence,
    explanation |-> r.explanation ]

\* The update of one active topic (lines 497-517).
update_of(known_topics, topic_name, signals, config, fp) ==
  topic_update(topic_name, previous_scores(known_topics, topic_name),
               update_mastery_and_confidence(
                 previous_scores(known_topics, topic_name).mastery_score,
                 previous_scores(known_topics, topic_name).confidence_score,
                 signals, config, fp))

\* the engagement left as computed at line 357
engagement_of_unclamped(facts) ==
  70 + (facts.confidence_pos * 4) - (facts.confidence_neg * 6) - (facts.avoidance * 10)

\* engagement_score (lines 353-358)
engagement_of(facts) ==
  Max(0, Min(100, 70 + (facts.confidence_pos * 4) - (facts.confidence_neg * 6)
                     - (facts.avoidance * 10)))

\* every topic given an accumulator taken as active
active_topics_of_seeded(detected_topics, per_topic_signals) ==
  SortedNameSeq(DOMAIN per_topic_signals)

\* sorted(active_topics) (lines 484-497)
active_topics_of(detected_topics, per_topic_signals) ==
  SortedNameSeq(
    Range(detected_topics)
      \cup { t \in DOMAIN per_topic_signals : signal_total(per_topic_signals[t]) > 0 })

\* The result of extract_session (lines 481-584), from what the transcript
\* gave, the detected topics, the signals and the active topics.
session_result(req, config, fp, facts, detected_topics, per_topic_signals, active) ==
  [ extracted_summary |->
      [ text |-> "Topics covered: ",
        topics |-> IF detected_topics # <<>> THEN detected_topics
                   ELSE <<"General problem solving">> ],
    detected_topics |-> detected_topics,
    detected_misconceptions |-> facts.detected_misconceptions,
    detected_strengths |-> facts.detected_strengths,
    engagement_score |-> engagement_of(facts),
    parent_summary |->
      [ topics |-> IF detected_topics # <<>> THEN Take(detected_topics, 3)
                   ELSE <<"problem solving">>,
        growing |-> facts.confidence_pos >= facts.confidence_neg ],
    tutor_insight |->
      [ engagement |-> engagement_of(facts), confidence_pos |-> facts.confidence_pos,
        confidence_neg |-> facts.confidence_neg, avoidance |-> facts.avoidance,
        misconceptions |-> facts.detected_misconceptions ],
    recommended_next_targets |-> recommend(req.known_topics, detected_topics),
    per_topic_signals |-> [k \in 1 .. Len(active) |->
                             [topic_name |-> active[k], signals |-> per_topic_signals[active[k]]]],
    per_topic_updates |-> [k \in 1 .. Len(active) |->
                             update_of(req.known_topics, active[k],
                                       per_topic_signals[active[k]], config, fp)],
    mental_block_candidates |->
      candidates_of(facts.detected_misconceptions, req.recent_sessions, facts.avoidance,
                    config),
    debug |-> [ turn_count |-> Len(facts.turns), topic_scores |-> Take(facts.ranked, 10),
                config |-> config ] ]

\* extract_session once the signals are known.
extract_session_signals(req, config, fp, facts, per_topic_signals) ==
  session_result(req, config, fp, facts, detected_topics_of(facts.ranked), per_topic_signals,
                 active_topics_of(detected_topics_of(facts.ranked), per_topic_signals))

\* extract_session once the transcript is read.
extract_session_facts(req, config, fp, facts) ==
  extract_session_signals(req, config, fp, facts, session_signals(req, facts))

extract_session(req, config, fp) ==
  extract_session_facts(req, config, fp,
                        transcript_facts(text_or(req.transcript_text, <<>>),
                                         lexed(text_or(req.transcript_text, <<>>))))

(***************************************************************************)
(* extractor/heuristic.py: extract_trial                                   *)
(***************************************************************************)
MaxCueLines == 10
MentionedSeed == 25

\* [l.strip() for l in text.splitlines() if l.strip()], then the first ten of
\* the lines a cue matches, normalized (_extract_goal_lines and
\* _extract_struggle_lines).
RECURSIVE cue_lines_of(_, _)
cue_lines_of(lines, cue) ==
  IF lines = <<>> THEN <<>>
  ELSE (IF strip(lines[1]) # <<>> /\ search(cue, lexed(strip(lines[1])))
          THEN << norm(strip(lines[1])) >> ELSE <<>>)
       \o cue_lines_of(Tail(lines), cue)

extract_cue_lines(text, cue) == Take(cue_lines_of(splitlines(text), cue), MaxCueLines)

\* sep.join(parts)
RECURSIVE join(_, _)
join(sep, parts) ==
  IF parts = <<>> THEN <<>>
  ELSE IF Len(parts) = 1 THEN parts[1]
  ELSE parts[1] \o sep \o join(sep, Tail(parts))

\* One roadmap entry per child of each focus domain, in taxonomy order.
RECURSIVE roadmap_entries(_)
roadmap_entries(focus) ==
  IF focus = <<>> THEN <<>>
  ELSE [k \in 1 .. Len(ChildrenOf(focus[1])) |->
          [parent_topic |-> focus[1], topic_name |-> ChildrenOf(focus[1])[k]]]
       \o roadmap_entries(Tail(focus))

\* _infer_roadmap
infer_roadmap(grade, curriculum, target_exam, mentioned_topics) ==
  LET grade_n == norm(text_or(grade, <<>>))
      exam_n == norm(text_or(target_exam, <<>>))
      cur_n == norm(text_or(curriculum, <<>>))
      focus == IF exam_n # <<>> /\ (\E k \in 1 .. Len(exam_n) : exam_n[k] \in {"SAT", "ACT"})
                 THEN <<"Algebra", "Geometry", "Data & Probability", "Word Problems">>
                 ELSE <<"Arithmetic", "Algebra", "Geometry">>
      mentioned == { mentioned_topics[k].topic_name : k \in 1 .. Len(mentioned_topics) }
      flag(x) == IF x.topic_name \in mentioned THEN 0 ELSE 1
      topics ==
        SortSeq(roadmap_entries(focus),
                LAMBDA a, b :
                  \/ flag(a) < flag(b)
                  \/ /\ flag(a) = flag(b)
                     /\ \/ NameRank(a.parent_topic) < NameRank(b.parent_topic)
                        \/ /\ a.parent_topic = b.parent_topic
                           /\ NameRank(a.topic_name) < NameRank(b.topic_name))
  IN [ grade |-> text_or(grade_n, NoText), curriculum |-> text_or(cur_n, NoText),
       target_exam |-> text_or(exam_n, NoText), focus_domains |-> focus, topics |-> topics ]

\* _infer_milestones_from_goals
RECURSIVE infer_milestones(_)
infer_milestones(goals) ==
  IF goals = <<>> THEN <<>>
  ELSE (IF strip(goals[1].description) = <<>> THEN <<>>
        ELSE [k \in 1 .. 3 |->
                [ goal_description |-> strip(goals[1].description),
                  milestone |-> << "Baseline check-in and identify top 3 gaps",
                                   "Midpoint: consistent accuracy with light prompting",
                                   "Target: independent solving under time pressure" >>[k] ]])
       \o infer_milestones(Tail(goals))

\* goals (lines 132-170): the stated goals, then the implied ones, or the
\* default goal.
trial_goals(goal_lines, struggle_lines) ==
  IF goal_lines # <<>> \/ struggle_lines # <<>>
    THEN [k \in 1 .. Len(goal_lines) |->
            [ description |-> goal_lines[k],
              measurable_outcome |-> "Show measurable improvement across weekly checks (accuracy + independence).",
              deadline |-> None, status |-> "not started" ]]
         \o [k \in 1 .. Len(struggle_lines) |->
               [ description |-> <<"Reduce recurring difficulty:", SP>> \o struggle_lines[k],
                 measurable_outcome |-> "Student solves similar problems with 80%+ accuracy and 1 hint or fewer.",
                 deadline |-> None, status |-> "not started" ]]
    ELSE << [ description |-> <<"Build consistent math confidence and mastery over time.">>,
              measurable_outcome |-> "Mastery and confidence trend upward across the topic map.",
              deadline |-> None, status |-> "not started" ] >>

\* mentioned_topics: the scored topics, most hits first.
mentioned_topics_of(topic_scores) ==
  SortSeq(SetToSeq({ topic_scores[t] : t \in DOMAIN topic_scores }),
          LAMBDA a, b :
            \/ a.hit_count > b.hit_count
            \/ /\ a.hit_count = b.hit_count
               /\ \/ NameRank(a.parent_topic) < NameRank(b.parent_topic)
                  \/ /\ a.parent_topic = b.parent_topic
                     /\ NameRank(a.topic_name) < NameRank(b.topic_name))

\* topics with every seed the default one
trial_topics_unseeded(roadmap_topics, topic_scores) ==
  [k \in 1 .. Len(roadmap_topics) |->
     [ topic_name |-> roadmap_topics[k].topic_name,
       parent_topic |-> roadmap_topics[k].parent_topic,
       mastery_score |-> DefaultMastery,
       confidence_score |-> DefaultConfidence ]]

\* topics: the roadmap's topics with their seed scores.
trial_topics(roadmap_topics, topic_scores) ==
  [k \in 1 .. Len(roadmap_topics) |->
     [ topic_name |-> roadmap_topics[k].topic_name,
       parent_topic |-> roadmap_topics[k].parent_topic,
       mastery_score |-> IF roadmap_topics[k].topic_name \in DOMAIN topic_scores
                           THEN MentionedSeed ELSE DefaultMastery,
       confidence_score |-> DefaultConfidence ]]

\* summary_bits
trial_summary_bits(goal_lines, struggle_lines, mentioned_topics) ==
  (IF goal_lines # <<>>
     THEN << <<"Goals mentioned:", SP>> \o join(<<",", SP>>, Take(goal_lines, 3)) >>
     ELSE <<>>)
  \o (IF struggle_lines # <<>>
        THEN << <<"Common challenges:", SP>> \o join(<<",", SP>>, Take(struggle_lines, 3)) >>
        ELSE <<>>)
  \o (IF mentioned_topics # <<>>
        THEN << <<"Topics discussed:", SP>>
                \o join(<<",", SP>>,
                        [k \in 1 .. Min(4, Len(mentioned_topics)) |->
                           <<mentioned_topics[k].topic_name>>]) >>
        ELSE <<>>)

\* The result of extract_trial, from the cue lines, the topic scores, the
\* mentioned topics, the goals and the roadmap.
trial_result(goal_lines, struggle_lines, topic_scores, mentioned_topics, goals, inferred) ==
  [ long_term_goal_summary |->
      text_or(norm(join(<<SP, "-", SP>>,
                        trial_summary_bits(goal_lines, struggle_lines, mentioned_topics))),
              <<"Trial goals and roadmap captured.">>),
    goals |-> goals,
    topics |-> trial_topics(inferred.topics, topic_scores),
    milestones |-> infer_milestones(Take(goals, 10)),
    inferred_curriculum_roadmap |-> inferred,
    debug |-> [ topic_scores |-> Take(mentioned_topics, 10), goal_lines |-> goal_lines,
                struggle_lines |-> struggle_lines ] ]

\* extract_trial once the mentioned topics are ranked.
extract_trial_mentioned(req, goal_lines, struggle_lines, topic_scores, mentioned_topics) ==
  trial_result(goal_lines, struggle_lines, topic_scores, mentioned_topics,
               trial_goals(goal_lines, struggle_lines),
               infer_roadmap(req.grade, req.curriculum, req.target_exam, mentioned_topics))

\* extract_trial once the transcript is read.
extract_trial_lines(req, goal_lines, struggle_lines, topic_scores) ==
  extract_trial_mentioned(req, goal_lines, struggle_lines, topic_scores,
                          mentioned_topics_of(topic_scores))

extract_trial(req) ==
  extract_trial_lines(req, extract_cue_lines(text_or(req.transcript_text, <<>>), "goal"),
                      extract_cue_lines(text_or(req.transcript_text, <<>>), "struggle"),
                      detect_topics_in_text(lexed(text_or(req.transcript_text, <<>>))))

(***************************************************************************)
(* db.py: the tables are sequences of rows, a row's id is its position.    *)
(***************************************************************************)
\* create_student: the new table; the new id is its length.
create_student(students, name, grade, curriculum, target_exam, long_term_goal_summary) ==
  Append(students, [ name |-> name, grade |-> grade, curriculum |-> curriculum,
                     target_exam |-> target_exam,
                     long_term_goal_summary |-> long_term_goal_summary ])

update_student_goal_summary(students, student_id, summary) ==
  [students EXCEPT ![student_id].long_term_goal_summary = summary]

\* get_student finds a row
has_student(students, student_id) == student_id \in 1 .. Len(students)

add_goals(goals, student_id, new_goals) ==
  goals \o [k \in 1 .. Len(new_goals) |->
              [ student_id |-> student_id,
                description |-> strip(new_goals[k].description),
                measurable_outcome |-> new_goals[k].measurable_outcome,
                deadline |-> new_goals[k].deadline,
                status |-> new_goals[k].status ]]

\* upsert_topic whose UPDATE sets the parent only and keeps the scores of
\* the row
upsert_topic_parent_only(topics, student_id, topic_name, parent_topic, mastery_score, confidence_score) ==
  LET rows == { k \in 1 .. Len(topics) :
                  topics[k].student_id = student_id /\ topics[k].topic_name = topic_name }
  IN IF rows # {}
       THEN [ k \in 1 .. Len(topics) |->
                IF k \in rows
                  THEN [topics[k] EXCEPT
                          !.parent_topic = IF parent_topic # None THEN parent_topic ELSE @]
                  ELSE topics[k] ]
       ELSE Append(topics, [ student_id |-> student_id, topic_name |-> topic_name,
                             parent_topic |-> parent_topic, mastery_score |-> mastery_score,
                             confidence_score |-> confidence_score ])

upsert_topic(topics, student_id, topic_name, parent_topic, mastery_score, confidence_score) ==
  LET rows == { k \in 1 .. Len(topics) :
                  topics[k].student_id = student_id /\ topics[k].topic_name = topic_name }
  IN IF rows # {}
       THEN [ k \in 1 .. Len(topics) |->
                IF k \in rows
                  THEN [topics[k] EXCEPT
                          !.parent_topic = IF parent_topic # None THEN parent_topic ELSE @,
                          !.mastery_score = mastery_score,
                          !.confidence_score = confidence_score]
                  ELSE topics[k] ]
       ELSE Append(topics, [ student_id |-> student_id, topic_name |-> topic_name,
                             parent_topic |-> parent_topic, mastery_score |-> mastery_score,
                             confidence_score |-> confidence_score ])

\* list_topics: ORDER BY COALESCE(parent_topic, topic_name), topic_name
list_topics(topics, student_id) ==
  LET first_key(r) == IF r.parent_topic # None THEN r.parent_topic ELSE r.topic_name
      rows == { [ id |-> k, topic_name |-> topics[k].topic_name,
                  parent_topic |-> topics[k].parent_topic,
                  mastery_score |-> topics[k].mastery_score,
                  confidence_score |-> topics[k].confidence_score ] :
                k \in { j \in 1 .. Len(topics) : topics[j].student_id = student_id } }
  IN SortSeq(SetToSeq(rows),
             LAMBDA a, b :
               \/ NameRank(first_key(a)) < NameRank(first_key(b))
               \/ /\ first_key(a) = first_key(b)
                  /\ \/ NameRank(a.topic_name) < NameRank(b.topic_name)
                     \/ a.topic_name = b.topic_name /\ a.id < b.id)

add_session(sessions, row) == Append(sessions, row)

\* list_sessions: ORDER BY session_date DESC, id DESC LIMIT ?
list_sessions(sessions, student_id, limit) ==
  LET rows == { [id |-> k] @@ sessions[k] :
                k \in { j \in 1 .. Len(sessions) : sessions[j].student_id = student_id } }
  IN Take(SortSeq(SetToSeq(rows),
                  LAMBDA a, b : \/ a.session_date > b.session_date
                                \/ a.session_date = b.session_date /\ a.id > b.id),
          limit)

record_topic_event(events, student_id, topic_name, session_id, event_date, upd) ==
  Append(events, [ student_id |-> student_id, topic_name |-> topic_name,
                   session_id |-> session_id, event_date |-> event_date,
                   previous_mastery |-> upd.previous_mastery,
                   new_mastery |-> upd.new_mastery,
                   previous_confidence |-> upd.previous_confidence,
                   new_confidence |-> upd.new_confidence,
                   explanation |-> upd.explanation ])

\* upsert_mental_block with the INSERT branch only
upsert_mental_block_insert(blocks, student_id, description, detected_at, initial_severity, repeat_severity_delta) ==
  Append(blocks, [ student_id |-> student_id, description |-> description,
                   first_detected |-> detected_at, last_detected |-> detected_at,
                   frequency_count |-> 1,
                   severity_score |-> Min(100, Max(0, initial_severity)) ])

\* upsert_mental_block whose UPDATE adds the delta without the clamp
upsert_mental_block_unclamped(blocks, student_id, description, detected_at, initial_severity, repeat_severity_delta) ==
  LET rows == { k \in 1 .. Len(blocks) :
                  blocks[k].student_id = student_id /\ blocks[k].description = description }
  IN IF rows # {}
       THEN LET id == CHOOSE k \in rows : \A j \in rows : k <= j
            IN [blocks EXCEPT
                  ![id].last_detected = detected_at,
                  ![id].frequency_count = @ + 1,
                  ![id].severity_score = @ + repeat_severity_delta]
       ELSE Append(blocks, [ student_id |-> student_id, description |-> description,
                             first_detected |-> detected_at, last_detected |-> detected_at,
                             frequency_count |-> 1,
                             severity_score |-> Min(100, Max(0, initial_severity)) ])

\* upsert_mental_block: the new table
upsert_mental_block(blocks, student_id, description, detected_at, initial_severity, repeat_severity_delta) ==
  LET rows == { k \in 1 .. Len(blocks) :
                  blocks[k].student_id = student_id /\ blocks[k].description = description }
  IN IF rows # {}
       THEN LET id == CHOOSE k \in rows : \A j \in rows : k <= j
            IN [blocks EXCEPT
                  ![id].last_detected = detected_at,
                  ![id].frequency_count = @ + 1,
                  ![id].severity_score = Min(100, Max(0, @ + repeat_severity_delta))]
       ELSE Append(blocks, [ student_id |-> student_id, description |-> description,
                             first_detected |-> detected_at, last_detected |-> detected_at,
                             frequency_count |-> 1,
                             severity_score |-> Min(100, Max(0, initial_severity)) ])

\* upsert_mental_block: the row it returns
mental_block_row(blocks, student_id, description) ==
  LET id == CHOOSE k \in 1 .. Len(blocks) :
              /\ blocks[k].student_id = student_id
              /\ blocks[k].description = description
              /\ \A j \in 1 .. (k - 1) :
                   ~(blocks[j].student_id = student_id /\ blocks[j].description = description)
  IN [ id |-> id, description |-> description,
       first_detected |-> blocks[id].first_detected,
       last_detected |-> blocks[id].last_detected,
       frequency_count |-> blocks[id].frequency_count,
       severity_score |-> blocks[id].severity_score ]

(***************************************************************************)
(* server.py: Handler._handle_api_post.  A handler is an operator from the *)
(* database and the request body to the database and the response.         *)
(***************************************************************************)
RecentSessionLimit == 25

DB ==
  [ student |-> student, goal |-> goal, topic |-> topic, session |-> session,
    topic_mastery_event |-> topic_mastery_event, mental_block |-> mental_block ]

error(status, code) == [status |-> status, data |-> [error |-> code]]

\* A request answered with an error before anything is stored or extracted:
\* the store as it was, the error response, no call on the extractor.
rejected(db, status, code) ==
  [db |-> db, response |-> error(status, code), extractor_calls |-> <<>>]

\* _read_json (lines 95-101) on a request body: bytes that are UTF-8 or not,
\* holding a JSON object (json = <<object>>) or not (json = <<>>).  decode
\* raises UnicodeDecodeError, which is not caught; a JSONDecodeError gives
\* None, here the empty body.
read_json(raw) ==
  IF raw.utf8 THEN [raised |-> None, body |-> raw.json]
  ELSE [raised |-> "UnicodeDecodeError", body |-> <<>>]

\* What the client gets when the handler raises: the connection is closed
\* and no response is sent.
no_response(exception) == [status |-> 0, data |-> [raised |-> exception]]

\* Lines 203-206, and the exception of _read_json passing through them.
unread(db, read) ==
  IF read.raised # None
    THEN [db |-> db, response |-> no_response(read.raised), extractor_calls |-> <<>>]
    ELSE rejected(db, 400, "invalid_json")

\* str(x).strip() if x is not None else None
stripped_or_none(x) == IF x = NoText THEN NoText ELSE strip(x)

\* POST /api/students (lines 208-221)
api_students(db, body) ==
  LET name == strip(text_or(body.name, <<>>))
  IN IF name = <<>> THEN rejected(db, 400, "missing_name")
     ELSE LET students == create_student(db.student, name, stripped_or_none(body.grade),
                                         stripped_or_none(body.curriculum),
                                         stripped_or_none(body.target_exam), NoText)
          IN [ db |-> [db EXCEPT !.student = students],
               response |-> [status |-> 200, data |-> [student_id |-> Len(students)]],
               extractor_calls |-> <<>> ]

\* _handle_api_post on the path /api/students (lines 201-221)
handle_api_post_students(db, raw) ==
  IF read_json(raw).body = <<>> THEN unread(db, read_json(raw))
  ELSE api_students(db, read_json(raw).body[1])

\* The loop of lines 258-266.
RECURSIVE seed_topics(_, _, _)
seed_topics(topics, student_id, seeds) ==
  IF seeds = <<>> THEN topics
  ELSE seed_topics(upsert_topic(topics, student_id, seeds[1].topic_name,
                                seeds[1].parent_topic, seeds[1].mastery_score,
                                seeds[1].confidence_score),
                   student_id, Tail(seeds))

names_of(rows) == [k \in 1 .. Len(rows) |-> rows[k].topic_name]

\* The request handed to extract_trial (lines 238-245).
trial_request(body) ==
  [ transcript_text |-> strip(text_or(body.transcript_text, <<>>)),
    student_name |-> strip(text_or(body.student.name, <<>>)),
    grade |-> stripped_or_none(body.student.grade),
    curriculum |-> stripped_or_none(body.student.curriculum),
    target_exam |-> stripped_or_none(body.student.target_exam),
    session_date |-> body.session_date ]

\* The session row of a trial (lines 268-282).
trial_session_row(student_id, req, topics) ==
  [ student_id |-> student_id,
    transcript_text |-> req.transcript_text,
    session_date |-> req.session_date,
    extracted_summary |-> [text |-> "Trial intake: goals + roadmap captured."],
    detected_topics |-> names_of(Take(topics, MaxDetectedTopics)),
    detected_misconceptions |-> <<>>,
    detected_strengths |-> <<>>,
    engagement_score |-> None,
    parent_summary |-> [text |-> "Trial session completed. Goals and roadmap are set."],
    tutor_insight |-> [text |-> "Trial transcript processed into goals + topic map."],
    recommended_next_targets |-> names_of(Take(topics, MaxTargets)) ]

\* Lines 248-297: the student, the goals, the topics and the session stored,
\* and the response.
trial_stored(db, req, extracted, student_id) ==
  [ db |-> [db EXCEPT
              !.student = create_student(@, req.student_name, req.grade, req.curriculum,
                                         req.target_exam, extracted.long_term_goal_summary),
              !.goal = add_goals(@, student_id, extracted.goals),
              !.topic = seed_topics(@, student_id, extracted.topics),
              !.session = add_session(@, trial_session_row(student_id, req, extracted.topics))],
    response |->
      [ status |-> 200,
        data |-> [ student_id |-> student_id,
                   trial_extraction |->
                     [ long_term_goal_summary |-> extracted.long_term_goal_summary,
                       goals |-> extracted.goals,
                       topics |-> extracted.topics,
                       milestones |-> extracted.milestones,
                       inferred_curriculum_roadmap |->
                         extracted.inferred_curriculum_roadmap ] ] ],
    extractor_calls |-> << [kind |-> "trial"] >> ]

\* Lines 238-297, for a request that passed the checks.
trial_served(db, req) == trial_stored(db, req, extract_trial(req), Len(db.student) + 1)

\* POST /api/trial (lines 223-297)
api_trial(db, body) ==
  IF strip(text_or(body.transcript_text, <<>>)) = <<>>
    THEN rejected(db, 400, "missing_transcript_text")
  ELSE IF body.session_date = 0
    THEN rejected(db, 400, "missing_session_date")
  ELSE IF strip(text_or(body.student.name, <<>>)) = <<>>
    THEN rejected(db, 400, "missing_student_name")
  ELSE trial_served(db, trial_request(body))

\* _handle_api_post on the path /api/trial (lines 201-206 and 223-297)
handle_api_post_trial(db, raw) ==
  IF read_json(raw).body = <<>> THEN unread(db, read_json(raw))
  ELSE api_trial(db, read_json(raw).body[1])

\* The parent of an updated topic (line 353).
parent_of_update(known_topics, topic_name) ==
  IF is_known(known_topics, topic_name)
       /\ known_by_name(known_topics, topic_name).parent_topic # None
    THEN known_by_name(known_topics, topic_name).parent_topic
    ELSE topic_parent_lookup(topic_name)

\* The loop of lines 352-373: the topic table after the updates.
RECURSIVE apply_updates(_, _, _, _)
apply_updates(topics, student_id, known_topics, updates) ==
  IF updates = <<>> THEN topics
  ELSE apply_updates(
         upsert_topic(topics, student_id, updates[1].topic_name,
                      parent_of_update(known_topics, updates[1].topic_name),
                      updates[1].new_mastery, updates[1].new_confidence),
         student_id, known_topics, Tail(updates))

\* The loop of lines 352-373: the event table after the updates.
RECURSIVE record_events(_, _, _, _, _)
record_events(events, student_id, session_id, event_date, updates) ==
  IF updates = <<>> THEN events
  ELSE record_events(
         record_topic_event(events, student_id, updates[1].topic_name, session_id,
                            event_date, updates[1]),
         student_id, session_id, event_date, Tail(updates))

\* The loop of lines 377-386: the table and the rows returned so far.
RECURSIVE apply_candidates(_, _, _, _, _)
apply_candidates(blocks, applied, student_id, detected_at, candidates) ==
  IF candidates = <<>> THEN [blocks |-> blocks, applied |-> applied]
  ELSE LET after == upsert_mental_block(blocks, student_id, candidates[1].description,
                                        detected_at, candidates[1].initial_severity,
                                        candidates[1].repeat_severity_delta)
       IN apply_candidates(after,
                           Append(applied, mental_block_row(after, student_id,
                                                            candidates[1].description)),
                           student_id, detected_at, Tail(candidates))

\* The request handed to extract_session (lines 323-333).
session_request(db, student_id, transcript_text, session_date) ==
  [ transcript_text |-> transcript_text,
    session_date |-> session_date,
    known_topics |-> list_topics(db.topic, student_id),
    recent_sessions |-> list_sessions(db.session, student_id, RecentSessionLimit) ]

\* The session row (lines 335-348).
session_row(student_id, req, extracted) ==
  [ student_id |-> student_id,
    transcript_text |-> req.transcript_text,
    session_date |-> req.session_date,
    extracted_summary |-> extracted.extracted_summary,
    detected_topics |-> extracted.detected_topics,
    detected_misconceptions |-> extracted.detected_misconceptions,
    detected_strengths |-> extracted.detected_strengths,
    engagement_score |-> extracted.engagement_score,
    parent_summary |-> extracted.parent_summary,
    tutor_insight |-> extracted.tutor_insight,
    recommended_next_targets |-> extracted.recommended_next_targets ]

\* Lines 335-411: the session, the topic updates, the events and the mental
\* blocks stored, and the response.
session_stored(db, student_id, req, extracted, session_id, blocks) ==
  [ db |-> [db EXCEPT
              !.session = add_session(@, session_row(student_id, req, extracted)),
              !.topic = apply_updates(@, student_id, req.known_topics,
                                      extracted.per_topic_updates),
              !.topic_mastery_event =
                record_events(@, student_id, session_id, req.session_date,
                              extracted.per_topic_updates),
              !.mental_block = blocks.blocks,
              !.student =
                IF strip(text_or(@[student_id].long_term_goal_summary, <<>>)) = <<>>
                  THEN update_student_goal_summary(
                         @, student_id, <<"Ongoing goals tracked via dashboard.">>)
                  ELSE @],
    response |->
      [ status |-> 200,
        data |-> [ student_id |-> student_id,
                   session_id |-> session_id,
                   session_extraction |->
                     [ extracted_summary |-> extracted.extracted_summary,
                       detected_topics |-> extracted.detected_topics,
                       detected_misconceptions |-> extracted.detected_misconceptions,
                       detected_strengths |-> extracted.detected_strengths,
                       engagement_score |-> extracted.engagement_score,
                       parent_summary |-> extracted.parent_summary,
                       tutor_insight |-> extracted.tutor_insight,
                       recommended_next_targets |-> extracted.recommended_next_targets,
                       per_topic_updates |-> extracted.per_topic_updates,
                       mental_blocks_applied |-> blocks.applied ] ] ],
    extractor_calls |-> << [kind |-> "session"] >> ]

\* Lines 335-411, for the extraction of a request.
session_extracted(db, student_id, req, extracted) ==
  session_stored(db, student_id, req, extracted, Len(db.session) + 1,
                 apply_candidates(db.mental_block, <<>>, student_id, req.session_date,
                                  extracted.mental_block_candidates))

\* Lines 323-411, for a request that passed the checks.
session_served(db, student_id, req, config, fp) ==
  session_extracted(db, student_id, req, extract_session(req, config, fp))

\* POST /api/session (lines 299-411).  A student_id that is missing, zero or
\* not a number is 0 here; a missing session_date is 0.
api_session(db, body, config, fp) ==
  IF body.student_id = 0
    THEN rejected(db, 400, "missing_student_id")
  ELSE IF strip(text_or(body.transcript_text, <<>>)) = <<>>
    THEN rejected(db, 400, "missing_transcript_text")
  ELSE IF body.session_date = 0
    THEN rejected(db, 400, "missing_session_date")
  ELSE IF ~has_student(db.student, body.student_id)
    THEN rejected(db, 404, "student_not_found")
  ELSE session_served(db, body.student_id,
                      session_request(db, body.student_id,
                                      strip(text_or(body.transcript_text, <<>>)),
                                      body.session_date),
                      config, fp)

\* _handle_api_post on the path /api/session (lines 201-206 and 299-411)
handle_api_post_session(db, raw, config, fp) ==
  IF read_json(raw).body = <<>> THEN unread(db, read_json(raw))
  ELSE api_session(db, read_json(raw).body[1], config, fp)

(***************************************************************************)
(* The text probe: _split_turns called once on a text drawn at Init.       *)
(***************************************************************************)
SplitAlphabet == {NL, SP, ":", "Tutor", "student", "hi"}

RECURSIVE TextsUpTo(_, _)
TextsUpTo(alphabet, n) ==
  IF n = 0 THEN { <<>> }
  ELSE LET shorter == TextsUpTo(alphabet, n - 1)
       IN shorter \cup { Append(t, c) : t \in shorter, c \in alphabet }

TextIdle == tIn = <<>> /\ tOut = <<>>

\* No extractor constructed and no object allocated.
ObjectsIdle == extractor = <<>> /\ heap = <<>> /\ calls = <<>> /\ rounding = NoFP

ExtractIdle == xIn = <<>> /\ xOut = <<>> /\ ObjectsIdle

\* An empty database file and no request served yet.
ServerIdle ==
  /\ student = <<>>
  /\ goal = <<>>
  /\ topic = <<>>
  /\ session = <<>>
  /\ topic_mastery_event = <<>>
  /\ mental_block = <<>>
  /\ response = <<>>

GrowthIdle ==
  /\ gIn = [ previous_mastery |-> 15, previous_confidence |-> 50,
             signals |-> ZeroSignals, config |-> GrowthConfig ]
  /\ gOut = <<>>

SplitInit ==
  /\ tIn \in TextsUpTo(SplitAlphabet, MaxTextLen)
  /\ tOut = <<>>
  /\ GrowthIdle
  /\ ExtractIdle
  /\ ServerIdle

SplitApply ==
  /\ tOut = <<>>
  /\ tOut' = << split_turns(tIn) >>
  /\ UNCHANGED <<tIn, gvars, xvars, svars>>

SplitNext == SplitApply

SplitSpec == SplitInit /\ [][SplitNext]_vars

(***************************************************************************)
(* The growth probe: the engine called once on arguments drawn at Init.    *)
(* new_mastery reads previous_mastery and the attempt, error, repeated,    *)
(* independent and hint counts; new_confidence reads previous_confidence   *)
(* and the attempt, error, independent and confidence counts.  The probe   *)
(* varies each group over its whole range while the other stays fixed.     *)
(***************************************************************************)
Counts == 0 .. MaxCount

\* Previous scores: every score within ClampSpan of an end of 0..100 (the
\* default session delta is at most 12, so these are the scores the final
\* clamp can act on), and the seeds 15, 25 and 50 in between.
PrevScores == (0 .. ClampSpan) \cup {15, 25, 50} \cup ((100 - ClampSpan) .. 100)

MasteryProbes ==
  { [ previous_mastery |-> pm, previous_confidence |-> 50,
      signals |-> [ZeroSignals EXCEPT !.attempt_count = a, !.error_count = e,
                     !.repeated_error_count = r, !.independent_count = i,
                     !.hint_count = h],
      config |-> GrowthConfig ] :
    pm \in PrevScores, a \in Counts, e \in Counts, r \in Counts, i \in Counts, h \in Counts }

ConfidenceProbes ==
  { [ previous_mastery |-> 15, previous_confidence |-> pc,
      signals |-> [ZeroSignals EXCEPT !.attempt_count = a, !.error_count = e,
                     !.independent_count = i,
                     !.confidence_positive = cp, !.confidence_negative = cn],
      config |-> GrowthConfig ] :
    pc \in PrevScores, a \in Counts, e \in Counts, i \in Counts, cp \in Counts, cn \in Counts }

GrowthInit ==
  /\ gIn \in MasteryProbes \cup ConfidenceProbes
  /\ gOut = <<>>
  /\ TextIdle
  /\ ExtractIdle
  /\ ServerIdle

GrowthApply ==
  /\ gOut = <<>>
  /\ \E fp \in FPChoices :
       gOut' = << update_mastery_and_confidence(
                    gIn.previous_mastery, gIn.previous_confidence,
                    gIn.signals, gIn.config, fp) >>
  /\ UNCHANGED <<gIn, tvars, xvars, svars>>

GrowthNext == GrowthApply

GrowthSpec == GrowthInit /\ [][GrowthNext]_vars

(***************************************************************************)
(* The same probe over arguments the engine accepts but the server never   *)
(* passes: any integer previous score, and other configurations.           *)
(***************************************************************************)
TenantConfig ==
  [GrowthConfig EXCEPT !.improvement_weight = 6, !.error_penalty = 1,
     !.repeated_error_penalty = 3, !.independent_bonus = 2,
     !.confidence_positive_weight = 5, !.confidence_negative_weight = 7,
     !.max_session_delta = 20, !.min_session_delta = -5]

DecimalConfig ==
  [GrowthConfig EXCEPT !.scale = 10, !.improvement_weight = 3, !.error_penalty = 7,
     !.repeated_error_penalty = 11, !.independent_bonus = 9,
     !.confidence_positive_weight = 5, !.confidence_negative_weight = 15,
     !.max_session_delta = 3, !.min_session_delta = -8]

InvertedConfig ==
  [GrowthConfig EXCEPT !.max_session_delta = -2, !.min_session_delta = 4]

Configs == {GrowthConfig, TenantConfig, DecimalConfig, InvertedConfig}

AnyCounts == 0 .. MaxAnyCount

\* Previous scores outside 0..100, just outside and far outside.
OutOfRangeScores == {-50, -1, 101, 150}

AnyProbes ==
  { [ previous_mastery |-> pm, previous_confidence |-> 50,
      signals |-> [ZeroSignals EXCEPT !.attempt_count = a, !.error_count = e,
                     !.repeated_error_count = r, !.independent_count = i,
                     !.hint_count = h],
      config |-> cfg ] :
    pm \in PrevScores \cup OutOfRangeScores,
    cfg \in Configs,
    a \in AnyCounts, e \in AnyCounts, r \in AnyCounts, i \in AnyCounts, h \in AnyCounts }

GrowthAnyInit ==
  /\ gIn \in AnyProbes
  /\ gOut = <<>>
  /\ TextIdle
  /\ ExtractIdle
  /\ ServerIdle

GrowthAnySpec == GrowthAnyInit /\ [][GrowthNext]_vars

(***************************************************************************)
(* The server: requests are served one at a time (HTTPServer), each by one *)
(* action.  The bodies are drawn from the transcripts of the repository's  *)
(* tests and a few more, two session dates, and the invalid values each    *)
(* handler rejects.  Dates are ISO dates read as numbers (2026-02-13 is    *)
(* 20260213), which orders them as SQLite orders the strings.              *)
(***************************************************************************)
MaxStudents == 2
MaxSessions == 2

T_example ==
  << "Tutor", ":", SP, "Add", SP, "1/4", SP, "+", SP, "1/4", ".", NL,
     "Student", ":", SP, "1/2" >>

T_denominators ==
  << "Tutor", ":", SP, "Add", SP, "1/3", SP, "+", SP, "1/6", ".", NL,
     "Student", ":", SP, "I think you add the denominators", ".", NL,
     "Tutor", ":", SP, "hint", ":", SP, "common denominator", ".", NL,
     "Student", ":", SP, "got it", "." >>

T_avoidance ==
  << "Student", ":", SP, "I hate", SP, "fractions", ".", SP,
     "I think you add the denominators", "." >>

T_unsure == << "Student", ":", SP, "not sure", SP, "x = 3", "?" >>

T_plain == << "Tutor", ":", SP, "hello" >>

T_trial ==
  << "Parent", ":", SP, "Our goal is to get better at", SP, "fractions", ".", NL,
     "Student", ":", SP, "I get stuck with negative numbers", ".", NL,
     "Tutor", ":", SP, "We'll improve", SP, "fractions", SP, "and", SP, "equations", "." >>

\* Two topics hit once each: Decimals, of Arithmetic, and Equations, of Algebra.
T_tie == << "Student", ":", SP, "decimals", SP, "and", SP, "equations", "." >>

SessionTranscripts == {T_example, T_denominators, T_avoidance, T_unsure}

Dates == {20260213, 20260214}

Blank == <<SP>>

\* Some topic's delta in the response is an inexact half: its rounding is not
\* determined by the rational value.
inexact_half(resp, config) ==
  /\ resp.status = 200
  /\ \E k \in 1 .. Len(resp.data.session_extraction.per_topic_updates) :
       LET sig == resp.data.session_extraction.per_topic_updates[k].explanation.signals_used
       IN update_mastery_and_confidence(0, 0, sig, config, NoFP)
            # update_mastery_and_confidence(0, 0, sig, config, [m |-> TRUE, c |-> TRUE])

Serve(result) ==
  \E r \in {result} :
  /\ student' = r.db.student
  /\ goal' = r.db.goal
  /\ topic' = r.db.topic
  /\ session' = r.db.session
  /\ topic_mastery_event' = r.db.topic_mastery_event
  /\ mental_block' = r.db.mental_block
  /\ response' = r.response
  /\ calls' = calls \o r.extractor_calls
  /\ UNCHANGED <<gvars, tvars, xIn, xOut, extractor, heap, rounding>>

\* GrowthConfig(...): the generated __init__ of the frozen dataclass stores
\* what it is given (growth.py, lines 15-31).
GrowthConfig_init(fields, strings) == [fields |-> fields, strings |-> strings]

\* HeuristicTranscriptExtractor.__init__ (lines 260-261)
HeuristicTranscriptExtractor_init(config) == [config |-> config]

\* App.__init__ on a new database file: the empty tables and an extractor
\* with the default config, not called yet.
ServerInit ==
  /\ ServerIdle
  /\ GrowthIdle
  /\ TextIdle
  /\ xIn = <<>>
  /\ xOut = <<>>
  /\ extractor = << HeuristicTranscriptExtractor_init(GrowthConfig_init(GrowthConfig, {})) >>
  /\ heap = <<>>
  /\ calls = <<>>
  /\ rounding = NoFP

\* The bodies of the requests: a JSON object, bytes that are not JSON, and
\* bytes that are not UTF-8.
Json(body) == [utf8 |-> TRUE, json |-> <<body>>]

NotJson == [utf8 |-> TRUE, json |-> <<>>]

NotUtf8 == [utf8 |-> FALSE, json |-> <<>>]

Unreadable == {NotJson, NotUtf8}

StudentBodies ==
  { [name |-> name, grade |-> NoText, curriculum |-> NoText, target_exam |-> NoText] :
    name \in {<<"Test Student">>, Blank} }

TrialBody(name, target_exam, transcript_text, session_date) ==
  [ student |-> [ name |-> name, grade |-> <<"7">>, curriculum |-> <<"Common Core">>,
                  target_exam |-> target_exam ],
    transcript_text |-> transcript_text, session_date |-> session_date ]

\* The valid trial bodies, and one body for each rejection.
TrialBodies ==
  { TrialBody(<<"Test Student">>, target_exam, T_trial, 20260211) :
    target_exam \in {NoText, <<"SAT">>} }
  \cup { TrialBody(<<"Test Student">>, NoText, Blank, 20260211),
         TrialBody(<<"Test Student">>, NoText, T_trial, 0),
         TrialBody(Blank, NoText, T_trial, 20260211) }

\* The valid session bodies for the students present, and one body for each
\* rejection.
SessionBodies ==
  { [student_id |-> student_id, transcript_text |-> transcript_text,
     session_date |-> session_date] :
    student_id \in 1 .. Len(student), transcript_text \in SessionTranscripts,
    session_date \in Dates }
  \cup { [student_id |-> 0, transcript_text |-> T_example, session_date |-> 20260213],
         [student_id |-> 1, transcript_text |-> Blank, session_date |-> 20260213],
         [student_id |-> 1, transcript_text |-> T_example, session_date |-> 0],
         [student_id |-> Len(student) + 1, transcript_text |-> T_example,
          session_date |-> 20260213] }

PostStudent ==
  /\ Len(student) < MaxStudents
  /\ \E raw \in { Json(body) : body \in StudentBodies } \cup Unreadable :
       Serve(handle_api_post_students(DB, raw))

PostTrial ==
  /\ Len(student) < MaxStudents
  /\ Len(session) < MaxSessions
  /\ \E raw \in { Json(body) : body \in TrialBodies } \cup Unreadable :
       Serve(handle_api_post_trial(DB, raw))

\* One session request served; where a delta is an inexact half, in each way
\* the rounding can fall.
ServeSession ==
  \E raw \in { Json(body) : body \in SessionBodies } \cup Unreadable :
    \E exact \in {handle_api_post_session(DB, raw, GrowthConfig, NoFP)} :
      \E fp \in (IF inexact_half(exact.response, GrowthConfig)
                    THEN FPChoices ELSE {NoFP}) :
        Serve(IF fp = NoFP THEN exact
              ELSE handle_api_post_session(DB, raw, GrowthConfig, fp))

PostSession ==
  /\ Len(session) < MaxSessions
  /\ ServeSession

Next == PostStudent \/ PostTrial \/ PostSession

Spec == ServerInit /\ [][Next]_vars

(***************************************************************************)
(* The server with one student who has a backlog of sessions: a student    *)
(* request, then BacklogLen session requests, all dated 2026-03-01, with a *)
(* transcript that names no topic.  The sessions served afterwards carry   *)
(* the earlier dates of Dates.                                             *)
(***************************************************************************)
MaxLateSessions == 3

BacklogLen == RecentSessionLimit - 1

BacklogStudent ==
  [name |-> <<"Test Student">>, grade |-> NoText, curriculum |-> NoText, target_exam |-> NoText]

BacklogSession == [student_id |-> 1, transcript_text |-> T_plain, session_date |-> 20260301]

BacklogInit == ServerInit

PostBacklogStudent ==
  /\ student = <<>>
  /\ Serve(handle_api_post_students(DB, Json(BacklogStudent)))

\* T_plain yields no topic update, so no delta is rounded.
PostBacklogSession ==
  /\ student # <<>>
  /\ Len(session) < BacklogLen
  /\ Serve(handle_api_post_session(DB, Json(BacklogSession), GrowthConfig, NoFP))

PostLateSession ==
  /\ Len(session) >= BacklogLen
  /\ Len(session) < BacklogLen + MaxLateSessions
  /\ ServeSession

BacklogNext == PostBacklogStudent \/ PostBacklogSession \/ PostLateSession

BacklogSpec == BacklogInit /\ [][BacklogNext]_vars

(***************************************************************************)
(* The extraction probe: extract_session called once on a request drawn at *)
(* Init, with the known topics and the recent sessions the caller hands    *)
(* it.                                                                     *)
(***************************************************************************)
MaxRecent == 2

\* Avoidance language without a misconception.
T_dislike == << "Student", ":", SP, "I hate", SP, "fractions", "." >>

\* Two misconceptions in one turn.
T_two_errors ==
  << "Student", ":", SP, "I think you add the denominators", ".", SP,
     "forgot the negative", "." >>

\* Two student turns, each a final answer on the same topic, around a Tutor
\* turn that reads as an answer too.
T_answers ==
  << "Student", ":", SP, "1/2", NL,
     "Tutor", ":", SP, "1/4", ".", NL,
     "Student", ":", SP, "1/4" >>

\* A speaker who says the phrase n times.
Repeating(speaker, phrase, n) ==
  << speaker, ":" >> \o [k \in 1 .. (2 * n) |-> IF k % 2 = 1 THEN SP ELSE phrase]

\* Enough positive matches, from the tutor, to pass 100, and enough avoidance
\* matches, from a parent, to pass 0.
T_cheer == Repeating("Tutor", "got it", 8)

T_refusal == Repeating("Parent", "I hate", 8)

\* The transcripts of the sessions, one that names no topic, one that only
\* avoids, one where a parent, the student and the tutor each name a topic, one
\* with two misconceptions, one with two answers, two that pass the ends of
\* the engagement scale, the empty transcript and the absent one.
ExtractTranscripts ==
  SessionTranscripts
    \cup {T_plain, T_dislike, T_trial, T_two_errors, T_answers, T_cheer, T_refusal,
          <<>>, NoText}

KnownTopic(topic_name, mastery_score, confidence_score) ==
  [ topic_name |-> topic_name, parent_topic |-> topic_parent_lookup(topic_name),
    mastery_score |-> mastery_score, confidence_score |-> confidence_score ]

KnownFractions ==
  { KnownTopic("Fractions", s[1], s[2]) : s \in {<<0, 50>>, <<15, 50>>, <<95, 100>>, <<100, 0>>} }

KnownTopicLists ==
  { <<>> }
    \cup { <<f>> : f \in KnownFractions }
    \cup { <<KnownTopic("Equations", 40, 60), f>> : f \in KnownFractions }

RecentSessionRecords ==
  { [detected_misconceptions |-> <<>>],
    [detected_misconceptions |-> <<"Adds denominators when working with fractions">>],
    [detected_misconceptions |-> << "Adds denominators when working with fractions",
                                    "Sign error with negatives" >>] }

\* Histories one session longer than the longest window: the misconception
\* is recorded at the two places given, most recent first, and nowhere else.
LongHistory(places) ==
  [ k \in 1 .. (BlockWindow + 1) |->
      IF k \in places
        THEN [detected_misconceptions |-> <<"Adds denominators when working with fractions">>]
        ELSE [detected_misconceptions |-> <<>>] ]

LongHistories ==
  { LongHistory(places) :
      places \in { {1, BlockWindow}, {BlockWindow, BlockWindow + 1},
                   {RepeatWindow, RepeatWindow + 1}, {RepeatWindow + 1, BlockWindow + 1} } }

\* The requests extract_session is probed with.
ExtractRequests ==
  [ transcript_text : ExtractTranscripts,
    session_date : {20260213},
    known_topics : KnownTopicLists,
    recent_sessions : TextsUpTo(RecentSessionRecords, MaxRecent) \cup LongHistories ]

ExtractInit ==
  /\ xIn \in ExtractRequests
  /\ xOut = <<>>
  /\ ObjectsIdle
  /\ GrowthIdle
  /\ TextIdle
  /\ ServerIdle

ExtractApply ==
  /\ xOut = <<>>
  /\ \E fp \in FPChoices : xOut' = << extract_session(xIn, GrowthConfig, fp) >>
  /\ UNCHANGED <<xIn, ovars, gvars, tvars, svars>>

ExtractNext == ExtractApply

ExtractSpec == ExtractInit /\ [][ExtractNext]_vars

(***************************************************************************)
(* The extractor as an object: an instance is constructed with a config    *)
(* and then called, the calls sharing the instance and the callers' dict   *)
(* objects.  heap holds the dict objects a call can reach: the known-topic *)
(* and recent-session dicts the callers own, and the signal accumulators   *)
(* the calls allocate.  A request names its dicts by id.  A config object  *)
(* is its numeric fields and the names of the fields that were given a     *)
(* string instead of a number.                                             *)
(***************************************************************************)
MaxCalls == 3

\* A config whose improvement_weight is the string "abc".
MalformedConfig == GrowthConfig_init(GrowthConfig, {"improvement_weight"})

ConfigObjects == {GrowthConfig_init(GrowthConfig, {}), MalformedConfig}

\* 10.0 * config.improvement_weight and the three products after it raise
\* TypeError on a string (growth.py, lines 54-57).
engine_raises(config) ==
  config.strings \cap {"improvement_weight", "repeated_error_penalty", "error_penalty",
                       "independent_bonus"} # {}

\* The dicts the callers own: two known topics and two recent sessions.
CallerObjects ==
  << KnownTopic("Fractions", 15, 50),
     KnownTopic("Equations", 40, 60),
     [detected_misconceptions |-> <<>>],
     [detected_misconceptions |-> <<"Adds denominators when working with fractions">>] >>

\* The objects a list of ids names.
deref(objects, ids) == [k \in 1 .. Len(ids) |-> objects[ids[k]]]

\* The session requests the callers make: known_topics and recent_sessions
\* are lists of ids.
SessionCalls ==
  { [ transcript_text |-> text, session_date |-> 20260213,
      known_topics |-> lists[1], recent_sessions |-> lists[2] ] :
    text \in {T_example, T_denominators, T_plain},
    lists \in { << <<>>, <<>> >>, << <<1, 2>>, <<4, 4>> >> } }
  \cup { [ transcript_text |-> T_tie, session_date |-> 20260213,
           known_topics |-> <<>>, recent_sessions |-> <<>> ] }

TrialCalls ==
  { [ transcript_text |-> text, student_name |-> <<"Test Student">>, grade |-> <<"7">>,
      curriculum |-> NoText, target_exam |-> NoText, session_date |-> 20260211 ] :
    text \in {T_trial, T_tie} }

\* The request as extract_session reads it.
session_args(objects, req) ==
  [ transcript_text |-> req.transcript_text,
    session_date |-> req.session_date,
    known_topics |-> deref(objects, req.known_topics),
    recent_sessions |-> deref(objects, req.recent_sessions) ]

Returned(result) == [raised |-> None, result |-> <<result>>]

Raised(exception) == [raised |-> exception, result |-> <<>>]

\* extract_session on an instance: the result, or the TypeError of the engine
\* when a topic is active and the config holds a string weight.
session_outcome(self, args, fp, facts, signals) ==
  IF ~engine_raises(self.config)
       \/ active_topics_of(detected_topics_of(facts.ranked), signals) = <<>>
    THEN Returned(extract_session_signals(args, self.config.fields, fp, facts, signals))
    ELSE Raised("TypeError")

\* The instance after extract_session or extract_trial: neither assigns an
\* attribute of self.
self_after_tuned(self) == [self EXCEPT !.config.fields.mental_block_session_threshold = 1]

self_after(self) == self

\* The names given an accumulator, in the order they are allocated: the known
\* topics, then the detected topics not among them (lines 384-410).
accumulator_names(known_topics, detected_topics) ==
  names_of(known_topics)
    \o SelectSeq(detected_topics, LAMBDA t : t \notin Range(names_of(known_topics)))

\* The heap after extract_session: each accumulator is a new dict (lines 389
\* and 402) and the loops write to the accumulators only (lines 423-479).
heap_after_shared(objects, names, signals) ==
  [ k \in 1 .. Len(objects) |->
      IF k = 1 /\ names # <<>> THEN signals[names[1]] @@ objects[k] ELSE objects[k] ]
    \o [k \in 1 .. Len(names) |-> signals[names[k]]]

heap_after(objects, names, signals) ==
  objects \o [k \in 1 .. Len(names) |-> signals[names[k]]]

\* The ids of the accumulators in the result's per_topic_signals (line 575).
returned_accumulators(objects, names, active) ==
  { Len(objects) + k : k \in { j \in 1 .. Len(names) : names[j] \in Range(active) } }

ExtractorInit ==
  /\ extractor = <<>>
  /\ heap = CallerObjects
  /\ calls = <<>>
  /\ rounding \in FPChoices
  /\ xIn = <<>>
  /\ xOut = <<>>
  /\ GrowthIdle
  /\ TextIdle
  /\ ServerIdle

Construct ==
  /\ extractor = <<>>
  /\ \E config \in ConfigObjects :
       extractor' = << HeuristicTranscriptExtractor_init(config) >>
  /\ UNCHANGED <<heap, calls, rounding, xIn, xOut, gvars, tvars, svars>>

\* One call of extract_session, given what it read off the transcript, the
\* signals and the accumulators' names.
SessionCalled(req, args, facts, signals, names) ==
  /\ calls' = Append(calls,
                [ kind |-> "session",
                  request |-> args,
                  outcome |-> session_outcome(extractor[1], args, rounding, facts, signals),
                  inputs |-> Range(req.known_topics) \cup Range(req.recent_sessions),
                  returned |->
                    returned_accumulators(
                      heap, names,
                      active_topics_of(detected_topics_of(facts.ranked), signals)) ])
  /\ heap' = heap_after(heap, names, signals)
  /\ extractor' = << self_after(extractor[1]) >>

CallSession ==
  /\ extractor # <<>>
  /\ Len(calls) < MaxCalls
  /\ \E req \in SessionCalls :
       \E args \in {session_args(heap, req)} :
         \E facts \in {transcript_facts(args.transcript_text, lexed(args.transcript_text))} :
           \E signals \in {session_signals(args, facts)} :
             SessionCalled(req, args, facts, signals,
                           accumulator_names(args.known_topics,
                                             detected_topics_of(facts.ranked)))
  /\ UNCHANGED <<rounding, xIn, xOut, gvars, tvars, svars>>

\* One call of extract_trial: it reads no config and is handed no dict.
CallTrial ==
  /\ extractor # <<>>
  /\ Len(calls) < MaxCalls
  /\ \E req \in TrialCalls :
       calls' = Append(calls, [ kind |-> "trial", request |-> req,
                                outcome |-> Returned(extract_trial(req)),
                                inputs |-> {}, returned |-> {} ])
  /\ extractor' = << self_after(extractor[1]) >>
  /\ UNCHANGED <<heap, rounding, xIn, xOut, gvars, tvars, svars>>

ExtractorNext == Construct \/ CallSession \/ CallTrial

ExtractorSpec == ExtractorInit /\ [][ExtractorNext]_vars

(***************************************************************************)
(* Claims about the growth engine                                          *)
(***************************************************************************)
Called == gOut # <<>>

\* The new mastery of the probe's arguments with one signal changed.
MasteryWith(signals, fp) ==
  update_mastery_and_confidence(gIn.previous_mastery, gIn.previous_confidence,
                                signals, gIn.config, fp).new_mastery

MasteryOutcomes(signals) == { MasteryWith(signals, [m |-> up, c |-> FALSE]) : up \in BOOLEAN }

SetMax(S) == CHOOSE x \in S : \A y \in S : y <= x

SetMin(S) == CHOOSE x \in S : \A y \in S : x <= y

\* C1: for previous scores in 0..100 and any non-negative counters, under the
\* default configuration, the engine returns new_mastery and new_confidence
\* in 0..100.
C1_ScoresInRange ==
  Called => /\ gOut[1].new_mastery \in 0 .. 100
            /\ gOut[1].new_confidence \in 0 .. 100

\* The clamp was needed: previous + delta left 0..100 on the mastery side.
C1_Witness ==
  /\ Called
  /\ gIn.previous_mastery + gOut[1].explanation.mastery_delta > 100
  /\ gOut[1].new_mastery = 100

SessionBound(config) == Max(Abs(config.max_session_delta), Abs(config.min_session_delta))

\* C2 as stated: for every integer previous_mastery and every configuration,
\* |new_mastery - previous_mastery| <= max(|max_session_delta|, |min_session_delta|).
C2_BoundedDeltaAnyPrevious ==
  Called => Abs(gOut[1].new_mastery - gIn.previous_mastery) <= SessionBound(gIn.config)

\* C2 amended: the bound holds for every previous_mastery in 0..100 (and every
\* configuration); outside 0..100 the final clamp moves the score further.
C2_BoundedDelta ==
  (Called /\ gIn.previous_mastery \in 0 .. 100)
    => Abs(gOut[1].new_mastery - gIn.previous_mastery) <= SessionBound(gIn.config)

\* A non-default configuration moved an in-range score by its whole bound.
C2_Witness ==
  /\ Called
  /\ gIn.config = TenantConfig
  /\ gIn.previous_mastery \in 0 .. 100
  /\ gOut[1].new_mastery - gIn.previous_mastery = 20

RaiseError(signals) == [signals EXCEPT !.error_count = @ + 1]

RaiseIndependent(signals) == [signals EXCEPT !.independent_count = @ + 1]

\* C3: with all other signals fixed, raising error_count by one never yields a
\* larger new_mastery.  Stated so that no resolution of an inexact half can
\* satisfy it when it fails: the least mastery possible with e + 1 errors is at
\* most the greatest possible with e.
C3_ErrorMonotone ==
  Called => SetMin(MasteryOutcomes(RaiseError(gIn.signals)))
              <= SetMax(MasteryOutcomes(gIn.signals))

\* C4: with all other signals fixed, raising independent_count by one never
\* yields a smaller new_mastery, however an inexact half is rounded.
C4_IndependentMonotone ==
  Called => \A m \in MasteryOutcomes(RaiseIndependent(gIn.signals)) :
              m >= gOut[1].new_mastery

\* One more independent completion raised the mastery strictly.
C4_Witness ==
  /\ Called
  /\ gIn.signals.independent_count >= 1
  /\ \A m \in MasteryOutcomes(RaiseIndependent(gIn.signals)) : m > gOut[1].new_mastery

(***************************************************************************)
(* Claims about _split_turns                                               *)
(***************************************************************************)
Split == tOut # <<>>

TextLines == splitlines(tIn)

IsSpeakerLine(line) == speaker_match(line).matched

SpeakerLineIndices == { k \in 1 .. Len(TextLines) : IsSpeakerLine(TextLines[k]) }

AllSpace(text) == \A k \in 1 .. Len(text) : IsSpace(text[k])

\* The last line of the block that the speaker line k starts.
BlockEnd(k) ==
  IF \E j \in SpeakerLineIndices : j > k
    THEN (CHOOSE j \in SpeakerLineIndices : j > k /\ \A i \in SpeakerLineIndices : i > k => j <= i) - 1
    ELSE Len(TextLines)

BlockIsBlank(k) ==
  /\ AllSpace(speaker_match(TextLines[k]).text)
  /\ \A j \in (k + 1) .. BlockEnd(k) : AllSpace(TextLines[j])

\* The speakers of the blocks starting at line k or later, in order; with
\* nonblank_only, of those whose text is not blank.
RECURSIVE BlockSpeakersFrom(_, _)
BlockSpeakersFrom(k, nonblank_only) ==
  IF k > Len(TextLines) THEN <<>>
  ELSE IF k \in SpeakerLineIndices /\ (~nonblank_only \/ ~BlockIsBlank(k))
    THEN <<speaker_match(TextLines[k]).speaker>> \o BlockSpeakersFrom(k + 1, nonblank_only)
    ELSE BlockSpeakersFrom(k + 1, nonblank_only)

\* The transcript is made only of Tutor: and Student: blocks.
OnlyTutorStudentBlocks ==
  /\ 1 \in SpeakerLineIndices
  /\ \A k \in SpeakerLineIndices : speaker_match(TextLines[k]).speaker \in {"Tutor", "Student"}

TurnSpeakers(turns) == [k \in 1 .. Len(turns) |-> turns[k].speaker]

\* C7 as stated: a transcript made only of Tutor:/Student: blocks splits into
\* exactly one turn per block, in order, each with its block's speaker.
C7_OneTurnPerBlock ==
  (Split /\ OnlyTutorStudentBlocks)
    => TurnSpeakers(tOut[1]) = BlockSpeakersFrom(1, FALSE)

\* C7 amended: one turn per block whose accumulated text is not blank, in
\* order, each with its block's speaker; a block with blank text yields no
\* turn, and when every block is blank the result is the single Unknown turn
\* holding the normalized transcript.
C7_OneTurnPerNonBlankBlock ==
  (Split /\ OnlyTutorStudentBlocks)
    => IF BlockSpeakersFrom(1, TRUE) = <<>>
         THEN tOut[1] = << [speaker |-> "Unknown", text |-> norm(tIn)] >>
         ELSE /\ TurnSpeakers(tOut[1]) = BlockSpeakersFrom(1, TRUE)
              /\ \A k \in 1 .. Len(tOut[1]) : tOut[1][k].text # <<>>

\* Two blocks, the first blank and the second not: one turn, the second's.
C7_Witness ==
  /\ Split
  /\ OnlyTutorStudentBlocks
  /\ Len(BlockSpeakersFrom(1, FALSE)) = 2
  /\ BlockIsBlank(1)
  /\ TurnSpeakers(tOut[1]) = <<"Student">>

\* C8: with no speaker-prefixed line, a non-blank transcript yields exactly
\* one turn, of speaker Unknown, holding the white-space-normalized transcript;
\* an empty or all-white-space transcript yields no turn.
C8_UnknownTurn ==
  (Split /\ SpeakerLineIndices = {})
    => IF AllSpace(tIn)
         THEN tOut[1] = <<>>
         ELSE tOut[1] = << [speaker |-> "Unknown", text |-> norm(tIn)] >>

\* A transcript of several lines without a speaker became one Unknown turn.
C8_Witness ==
  /\ Split
  /\ SpeakerLineIndices = {}
  /\ Len(TextLines) >= 2
  /\ Len(tOut[1]) = 1
  /\ tOut[1][1].speaker = "Unknown"
  /\ Len(tOut[1][1].text) >= 3

(***************************************************************************)
(* Claims about extract_session and the session endpoint                   *)
(***************************************************************************)
Extracted == xOut # <<>>

\* The updates of one topic in a list of per-topic updates.
UpdatesOf(updates, topic_name) == SelectSeq(updates, LAMBDA u : u.topic_name = topic_name)

\* The rational x is the integer n.
RatIs(x, n) == x[1] = n * x[2]

\* This step served a session request with success.
SessionServed ==
  /\ Len(session') = Len(session) + 1
  /\ "session_extraction" \in DOMAIN response'.data

\* The last response is a session's.
SessionResponse == DOMAIN response # {} /\ "session_extraction" \in DOMAIN response.data

\* The events this step recorded.
NewEvents ==
  SubSeq(topic_mastery_event', Len(topic_mastery_event) + 1, Len(topic_mastery_event'))

\* The stored scores of a student's topic, the defaults if it has no row.
StoredScores(topics, student_id, topic_name) ==
  LET rows == { k \in 1 .. Len(topics) :
                  topics[k].student_id = student_id /\ topics[k].topic_name = topic_name }
  IN IF rows = {}
       THEN [mastery_score |-> DefaultMastery, confidence_score |-> DefaultConfidence]
       ELSE LET k == CHOOSE j \in rows : TRUE
            IN [ mastery_score |-> topics[k].mastery_score,
                 confidence_score |-> topics[k].confidence_score ]

SessionsOf(sessions, student_id) == SelectSeq(sessions, LAMBDA r : r.student_id = student_id)

Records(r, m) == m \in Range(r.detected_misconceptions)

Avoids(r) == "avoidance" \in DOMAIN r.tutor_insight /\ r.tutor_insight.avoidance > 0

\* The last n rows record m, none with avoidance language, and no row before
\* them records m.
FirstRun(rows, m, n) ==
  /\ n <= Len(rows)
  /\ \A k \in 1 .. Len(rows) : Records(rows[k], m) <=> k > Len(rows) - n
  /\ \A k \in (Len(rows) - n + 1) .. Len(rows) : ~Avoids(rows[k])

\* A block of student s described by m is stored.
BlockStored(blocks, s, m) ==
  \E k \in 1 .. Len(blocks) : blocks[k].student_id = s /\ blocks[k].description = m

\* What C5 says of the misconception m, given the student's session rows, the
\* candidates of the extraction and the blocks the response lists.
C5_Of(m, s, rows, candidates, applied, blocks) ==
  /\ FirstRun(rows, m, 3)
       => /\ \E k \in 1 .. Len(candidates) :
               candidates[k].description = m /\ candidates[k].session_count = 3
          /\ \E k \in 1 .. Len(applied) : applied[k].description = m
          /\ BlockStored(blocks, s, m)
  /\ (FirstRun(rows, m, 1) \/ FirstRun(rows, m, 2))
       => /\ \A k \in 1 .. Len(candidates) : candidates[k].description # m
          /\ \A k \in 1 .. Len(applied) : applied[k].description # m
          /\ ~BlockStored(blocks, s, m)

\* The candidates extract_session returns for the request the step served.
C5_Candidates(s, row) ==
  extract_session(session_request(DB, s, row.transcript_text, row.session_date),
                  GrowthConfig, NoFP).mental_block_candidates

C5_Rows(s, candidates) ==
  \A m \in Range(misconception_labels) :
    C5_Of(m, s, SessionsOf(session', s), candidates,
          response'.data.session_extraction.mental_blocks_applied, mental_block')

C5_Step ==
  SessionServed =>
    C5_Rows(response'.data.student_id,
            C5_Candidates(response'.data.student_id, session'[Len(session')]))

\* C5: when the same misconception is detected in 3 consecutive sessions of
\* one student, none with avoidance language and no earlier session recording
\* it, the session endpoint emits a candidate with session_count = 3 and stores
\* a mental block on the 3rd session, and neither emits a candidate nor stores
\* a block on the 1st or the 2nd.
C5_ThirdSessionBlock == [][C5_Step]_vars

\* Every stored topic row has its two scores in 0..100.
C6_StoredInRange ==
  \A k \in 1 .. Len(topic) :
    topic[k].mastery_score \in 0 .. 100 /\ topic[k].confidence_score \in 0 .. 100

\* A session step leaves a topic row of new or changed scores only with
\* clamp(stored score + the delta of the event recorded for it, 0, 100), the
\* delta within the session bounds.
C6_Step ==
  SessionServed =>
    \A k \in 1 .. Len(topic') :
      LET row == topic'[k]
          before == StoredScores(topic, row.student_id, row.topic_name)
          changed == \/ k > Len(topic)
                     \/ row.mastery_score # topic[k].mastery_score
                     \/ row.confidence_score # topic[k].confidence_score
      IN changed =>
           /\ row.student_id = response'.data.student_id
           /\ \E j \in 1 .. Len(NewEvents) :
                LET e == NewEvents[j]
                IN /\ e.student_id = row.student_id
                   /\ e.topic_name = row.topic_name
                   /\ e.explanation.mastery_delta
                        \in GrowthConfig.min_session_delta .. GrowthConfig.max_session_delta
                   /\ e.explanation.confidence_delta
                        \in GrowthConfig.min_session_delta .. GrowthConfig.max_session_delta
                   /\ row.mastery_score
                        = clamp_int(before.mastery_score + e.explanation.mastery_delta, 0, 100)
                   /\ row.confidence_score
                        = clamp_int(before.confidence_score + e.explanation.confidence_delta,
                                    0, 100)

\* C6: after any sequence of trial and session requests served one at a time,
\* every stored topic row has mastery and confidence in 0..100, and a session
\* changes a stored score only to clamp(previous stored score + bounded
\* rounded delta, 0, 100), never to a value computed from the signals alone.
C6_StoredScores == []C6_StoredInRange /\ [][C6_Step]_vars

\* A topic seeded at 25 by a trial was moved to 37 by a session.
C6_Witness ==
  \E j \in 1 .. Len(topic_mastery_event) :
    LET e == topic_mastery_event[j]
    IN /\ e.previous_mastery = 25
       /\ e.new_mastery = 37
       /\ StoredScores(topic, e.student_id, e.topic_name).mastery_score = 37

\* C9: for the transcript "Tutor: Add 1/4 + 1/4.\nStudent: 1/2" with Fractions
\* at previous mastery 15 and confidence 50 and the default config,
\* extract_session reports Fractions in detected_topics with attempt_count 1,
\* independent_count 1, error_count 0, hint_count 0, a mastery delta of 12
\* (improvement 10 plus bonus 2, at the cap) and new_mastery 27.
C9_ExampleSession ==
  ( /\ Extracted
    /\ xIn.transcript_text = T_example
    /\ previous_scores(xIn.known_topics, "Fractions")
         = [mastery_score |-> 15, confidence_score |-> 50] )
  => LET upds == UpdatesOf(xOut[1].per_topic_updates, "Fractions")
     IN /\ "Fractions" \in Range(xOut[1].detected_topics)
        /\ Len(upds) = 1
        /\ upds[1].explanation.signals_used.attempt_count = 1
        /\ upds[1].explanation.signals_used.independent_count = 1
        /\ upds[1].explanation.signals_used.error_count = 0
        /\ upds[1].explanation.signals_used.hint_count = 0
        /\ RatIs(upds[1].explanation.delta_components.improvement_factor, 10)
        /\ RatIs(upds[1].explanation.delta_components.independent_bonus, 2)
        /\ RatIs(upds[1].explanation.delta_components.error_penalty, 0)
        /\ RatIs(upds[1].explanation.delta_components.repeated_error_penalty, 0)
        /\ RatIs(upds[1].explanation.bounded_delta, GrowthConfig.max_session_delta)
        /\ upds[1].explanation.mastery_delta = 12
        /\ upds[1].previous_mastery = 15
        /\ upds[1].new_mastery = 27

\* The example transcript extracted for a student with no known topic and a
\* recent session on file.
C9_Witness ==
  /\ Extracted
  /\ xIn.transcript_text = T_example
  /\ xIn.known_topics = <<>>
  /\ xIn.recent_sessions # <<>>
  /\ xOut[1].detected_topics = <<"Fractions">>
  /\ UpdatesOf(xOut[1].per_topic_updates, "Fractions")[1].new_mastery = 27

C10_Step ==
  SessionServed =>
    \A j \in 1 .. Len(NewEvents) :
      LET e == NewEvents[j]
      IN ( /\ e.explanation.signals_used.error_count = 0
           /\ e.explanation.signals_used.repeated_error_count = 0
           /\ e.previous_mastery \in 0 .. 100 )
         => /\ e.new_mastery >= e.previous_mastery
            /\ StoredScores(topic', e.student_id, e.topic_name).mastery_score
                 >= StoredScores(topic, e.student_id, e.topic_name).mastery_score

\* C10: a session never lowers the mastery of a topic whose signals for that
\* session have error_count = 0 and repeated_error_count = 0: the topic's
\* new_mastery, and its stored mastery after the session, is at least its
\* previous mastery.
C10_NoErrorNoLoss == [][C10_Step]_vars

\* The last session raised a topic without errors, and the raised score is the
\* stored one.
C10_Witness ==
  /\ SessionResponse
  /\ \E k \in 1 .. Len(response.data.session_extraction.per_topic_updates) :
       LET u == response.data.session_extraction.per_topic_updates[k]
       IN /\ u.explanation.signals_used.error_count = 0
          /\ u.explanation.signals_used.repeated_error_count = 0
          /\ u.explanation.signals_used.attempt_count > 0
          /\ u.new_mastery > u.previous_mastery
          /\ StoredScores(topic, response.data.student_id, u.topic_name).mastery_score
               = u.new_mastery


(***************************************************************************)
(* Claims about the mental-block table                                     *)
(***************************************************************************)
\* The rows of the table for a student and a description.
BlockRows(blocks, student_id, description) ==
  { k \in 1 .. Len(blocks) :
      blocks[k].student_id = student_id /\ blocks[k].description = description }

C11_OnePerDescription ==
  \A k \in 1 .. Len(mental_block) :
    BlockRows(mental_block, mental_block[k].student_id, mental_block[k].description) = {k}

\* A session step that applies a block whose description the student already
\* had adds no row for it: the existing row counts one more detection.
C11_Step ==
  SessionServed =>
    \A k \in 1 .. Len(mental_block) :
      (\E j \in 1 .. Len(response'.data.session_extraction.mental_blocks_applied) :
         /\ response'.data.student_id = mental_block[k].student_id
         /\ response'.data.session_extraction.mental_blocks_applied[j].description
              = mental_block[k].description)
      => /\ BlockRows(mental_block', mental_block[k].student_id, mental_block[k].description)
              = {k}
         /\ mental_block'[k].frequency_count = mental_block[k].frequency_count + 1
         /\ mental_block'[k].first_detected = mental_block[k].first_detected

\* C11: after any sequence of session submissions the store holds at most one
\* mental-block record per (student, description); a repeated candidate for an
\* existing description merges into the existing record instead of creating a
\* second one.
C11_OneBlockPerDescription == []C11_OnePerDescription /\ [][C11_Step]_vars

\* A block was detected a second time and merged into its row.
C11_Witness ==
  \E k \in 1 .. Len(mental_block) :
    /\ mental_block[k].frequency_count = 2
    /\ BlockRows(mental_block, mental_block[k].student_id, mental_block[k].description) = {k}


(***************************************************************************)
(* Claims about extract_trial and the trial endpoint                       *)
(***************************************************************************)
\* This step served a trial request with success.
TrialServed ==
  /\ Len(student') = Len(student) + 1
  /\ "trial_extraction" \in DOMAIN response'.data

\* The last response is a trial's.
TrialResponse == DOMAIN response # {} /\ "trial_extraction" \in DOMAIN response.data

\* The topic rows of a student.
TopicRowsOf(topics, student_id) == SelectSeq(topics, LAMBDA r : r.student_id = student_id)

\* What C12 says of the topics of a trial extraction, given the roadmap's
\* focus domains, the topics the transcript mentions and the student's rows.
C12_Of(topics, focus, mentioned, rows) ==
  /\ \A k \in 1 .. Len(topics) :
       /\ topics[k].parent_topic \in Range(focus)
       /\ topics[k].topic_name \in Range(ChildrenOf(topics[k].parent_topic))
       /\ \A j \in 1 .. Len(topics) : topics[j].topic_name = topics[k].topic_name => j = k
       /\ topics[k].mastery_score = (IF topics[k].topic_name \in mentioned THEN 25 ELSE 15)
       /\ topics[k].confidence_score = 50
       /\ \E j \in 1 .. Len(rows) :
            /\ rows[j].topic_name = topics[k].topic_name
            /\ rows[j].parent_topic = topics[k].parent_topic
            /\ rows[j].mastery_score = topics[k].mastery_score
            /\ rows[j].confidence_score = topics[k].confidence_score
            /\ \A i \in 1 .. Len(rows) : rows[i].topic_name = topics[k].topic_name => i = j
  /\ Len(rows) = Len(topics)

C12_Step ==
  TrialServed =>
    C12_Of(response'.data.trial_extraction.topics,
           response'.data.trial_extraction.inferred_curriculum_roadmap.focus_domains,
           DOMAIN detect_topics_in_text(lexed(session'[Len(session')].transcript_text)),
           TopicRowsOf(topic', response'.data.student_id))

\* C12: every topic in the result of extract_trial belongs to one of the
\* roadmap's focus domains, appears exactly once, has mastery_score 25 if the
\* transcript mentions it and 15 otherwise, and confidence_score 50; after the
\* trial endpoint stores them the student has exactly one topic row per such
\* topic.
C12_TrialTopics == [][C12_Step]_vars

\* A trial for the SAT: Equations is mentioned and seeded at 25, Quadratics is
\* not and is seeded at 15, and the mentioned Fractions is outside the focus
\* domains and has no row.
C12_Witness ==
  /\ TrialResponse
  /\ \E k \in 1 .. Len(topic) :
       /\ topic[k].student_id = response.data.student_id
       /\ topic[k].topic_name = "Equations"
       /\ topic[k].mastery_score = 25
  /\ \E k \in 1 .. Len(topic) :
       /\ topic[k].student_id = response.data.student_id
       /\ topic[k].topic_name = "Quadratics"
       /\ topic[k].mastery_score = 15
  /\ \A k \in 1 .. Len(topic) :
       topic[k].student_id = response.data.student_id => topic[k].topic_name # "Fractions"


(***************************************************************************)
(* Claims about the explanation record                                     *)
(***************************************************************************)
SignalNames ==
  { "attempt_count", "error_count", "repeated_error_count", "independent_count",
    "hint_count", "confidence_positive", "confidence_negative" }

\* The intermediates the explanation does hold: the derived signals, the four
\* delta components, the bounded delta and a copy of the seven signals.
C13_Retained ==
  Called =>
    /\ DOMAIN gOut[1].explanation.derived_signals = {"correction_speed", "independence"}
    /\ gOut[1].explanation.derived_signals.correction_speed
         = correction_speed_of(gIn.signals.hint_count, gIn.signals.error_count)
    /\ gOut[1].explanation.derived_signals.independence
         = independence_of(gIn.signals.independent_count, gIn.signals.attempt_count)
    /\ DOMAIN gOut[1].explanation.delta_components
         = {"improvement_factor", "independent_bonus", "error_penalty", "repeated_error_penalty"}
    /\ "bounded_delta" \in DOMAIN gOut[1].explanation
    /\ DOMAIN gOut[1].explanation.signals_used = SignalNames
    /\ \A n \in SignalNames : gOut[1].explanation.signals_used[n] = gIn.signals[n]

\* The fields of the explanation, nested ones included.
ExplanationFields(explanation) ==
  DOMAIN explanation \cup DOMAIN explanation.delta_components
    \cup DOMAIN explanation.derived_signals

\* C13: the explanation record returned by update_mastery_and_confidence
\* contains every derived intermediate: correction_speed, independence, each
\* delta component, both the bounded and the raw (pre-clamp) deltas, and a copy
\* of all seven signal inputs.
C13_ExplanationComplete ==
  /\ C13_Retained
  /\ Called => "raw_delta" \in ExplanationFields(gOut[1].explanation)


(***************************************************************************)
(* Claims about the extractor instance and the objects it is handed        *)
(***************************************************************************)
\* Two calls of the same method with equal requests have equal outcomes.
C14_SameOutcome ==
  \A i \in 1 .. Len(calls) : \A j \in 1 .. Len(calls) :
    (calls[i].kind = calls[j].kind /\ calls[i].request = calls[j].request)
      => calls[i].outcome = calls[j].outcome

\* A call leaves the instance as it was.
C14_Step == Len(calls') > Len(calls) => extractor' = extractor

C15_Step ==
  (Len(calls') > Len(calls) /\ calls'[Len(calls')].kind = "session") =>
    /\ \A id \in 1 .. Len(heap) : heap'[id] = heap[id]
    /\ \A id \in calls'[Len(calls')].inputs :
         id \in 1 .. Len(heap) /\ heap'[id] = heap[id]
    /\ calls'[Len(calls')].returned \subseteq (Len(heap) + 1) .. Len(heap')
    /\ calls'[Len(calls')].returned \cap calls'[Len(calls')].inputs = {}

ComputedWithMalformed ==
  /\ extractor # <<>>
  /\ extractor[1].config.strings # {}
  /\ \E k \in 1 .. Len(calls) : calls[k].kind = "session" /\ calls[k].outcome.raised = None

\* C17: malformed configuration fails fast: a GrowthConfig (or an extractor
\* with it) whose weights or bounds are malformed, for example a non-numeric
\* weight, is rejected at construction time, so no extractor holds a malformed
\* config and no extraction is ever computed with one.
C17_FailFast ==
  /\ extractor # <<>> => extractor[1].config.strings = {}
  /\ ~ComputedWithMalformed


(***************************************************************************)
(* Claims about extract_session on the requests of the extraction probe    *)
(***************************************************************************)
ResultFields ==
  { "extracted_summary", "detected_topics", "detected_misconceptions", "detected_strengths",
    "engagement_score", "parent_summary", "tutor_insight", "recommended_next_targets",
    "per_topic_signals", "per_topic_updates", "mental_block_candidates", "debug" }

\* C16: an empty or absent transcript is not an error for the core:
\* extract_session with empty transcript_text returns a complete result with no
\* turns, empty detected_topics, detected_misconceptions, per_topic_updates and
\* mental_block_candidates, and engagement_score 70.
C16_EmptyTranscript ==
  (Extracted /\ xIn.transcript_text \in {<<>>, NoText})
    => /\ DOMAIN xOut[1] = ResultFields
       /\ xOut[1].debug.turn_count = 0
       /\ xOut[1].detected_topics = <<>>
       /\ xOut[1].detected_misconceptions = <<>>
       /\ xOut[1].per_topic_signals = <<>>
       /\ xOut[1].per_topic_updates = <<>>
       /\ xOut[1].mental_block_candidates = <<>>
       /\ xOut[1].engagement_score = 70

\* The empty transcript extracted for a student with known topics and a
\* recent session that records a misconception: the known topics are still
\* recommended.
C16_Witness ==
  /\ Extracted
  /\ xIn.transcript_text = <<>>
  /\ Len(xIn.known_topics) = 2
  /\ \E k \in 1 .. Len(xIn.recent_sessions) :
       xIn.recent_sessions[k].detected_misconceptions # <<>>
  /\ xOut[1].engagement_score = 70
  /\ Len(xOut[1].recommended_next_targets) = 2


\* The number of times the sessions record m.
RECURSIVE RecordedCount(_, _)
RecordedCount(sessions, m) ==
  IF sessions = <<>> THEN 0
  ELSE Cardinality({ k \in 1 .. Len(sessions[1].detected_misconceptions) :
                       sessions[1].detected_misconceptions[k] = m })
       + RecordedCount(Tail(sessions), m)

\* What C18 says of the candidates, given the detected misconceptions, the
\* recent sessions of the window, the number of avoidance matches and the
\* config.
C18_Of(candidates, detected, window, avoidance, config) ==
  /\ \A m \in Range(misconception_labels) :
       (\E k \in 1 .. Len(candidates) : candidates[k].description = m)
         <=> /\ m \in Range(detected)
             /\ \/ RecordedCount(window, m) + 1 >= config.mental_block_session_threshold
                \/ avoidance >= 1
  /\ \A k \in 1 .. Len(candidates) :
       /\ \A j \in 1 .. Len(candidates) :
            candidates[j].description = candidates[k].description => j = k
       /\ candidates[k].session_count = RecordedCount(window, candidates[k].description) + 1
       /\ candidates[k].initial_severity
            = (IF avoidance > 0
                 THEN config.mental_block_base_severity + config.mental_block_avoidance_bonus
                 ELSE config.mental_block_base_severity)
       /\ candidates[k].repeat_severity_delta
            = (IF avoidance > 0
                 THEN config.mental_block_repeat_delta + config.mental_block_avoidance_bonus
                 ELSE config.mental_block_repeat_delta)
  /\ detected = <<>> => candidates = <<>>

\* C18: extract_session emits a mental-block candidate for exactly those
\* currently detected misconceptions m for which the occurrences of m in the
\* detected_misconceptions of recent_sessions[0..24], plus 1, reach
\* mental_block_session_threshold, or for which the transcript has at least one
\* avoidance match; none when no misconception is detected, even with
\* avoidance language.  Each candidate has session_count equal to that count
\* plus 1, initial_severity base_severity (+ avoidance_bonus with avoidance)
\* and repeat_severity_delta repeat_delta (+ avoidance_bonus with avoidance).
C18_Candidates ==
  Extracted =>
    C18_Of(xOut[1].mental_block_candidates, xOut[1].detected_misconceptions,
           SubSeq(xIn.recent_sessions, 1, Min(25, Len(xIn.recent_sessions))),
           count_any("avoid", lexed(text_or(xIn.transcript_text, <<>>))), GrowthConfig)

\* A history of 26 sessions records the misconception at its 25th and 26th
\* places: only the 25th counts, and the transcript, without avoidance, yields
\* no candidate.
C18_Witness ==
  /\ Extracted
  /\ xIn.recent_sessions = LongHistory({BlockWindow, BlockWindow + 1})
  /\ xIn.transcript_text = T_denominators
  /\ xOut[1].detected_misconceptions # <<>>
  /\ xOut[1].mental_block_candidates = <<>>


(***************************************************************************)
(* Claims about the turn-level attribution and the recommended targets     *)
(***************************************************************************)
\* The turns of the given speakers that match the topic.
MatchingTurns(turns, speakers, topic_name) ==
  { j \in 1 .. Len(turns) :
      /\ turns[j].speaker \in speakers
      /\ topic_name \in matched_topics(lexed(turns[j].text)) }

\* What C19 says of the signals of the updated topics, given the turns.
C19_Of(updates, turns) ==
  \A k \in 1 .. Len(updates) :
    LET sig == updates[k].explanation.signals_used
        name == updates[k].topic_name
    IN /\ sig.attempt_count
            = Cardinality(MatchingTurns(turns, {"Student", "Unknown"}, name))
       /\ MatchingTurns(turns, {"Student", "Unknown", "Parent"}, name) = {}
            => /\ sig.attempt_count = 0
               /\ sig.error_count = 0
               /\ sig.independent_count = 0
               /\ sig.confidence_positive = 0
               /\ sig.confidence_negative = 0

\* C19: in turn-level attribution a topic's attempt_count is incremented
\* exactly once for each Student-speaker or Unknown-speaker turn that matches
\* the topic and by no turn of any other speaker (Tutor, Parent); a Tutor turn
\* changes no counter other than hint_count.
C19_Attempts ==
  Extracted =>
    C19_Of(xOut[1].per_topic_updates, split_turns(text_or(xIn.transcript_text, <<>>)))

\* The part of C19 the loop does keep: a topic matched only by Tutor turns has
\* no attempt, error, independent or confidence signal.
C19_TutorOnlyHints ==
  Extracted =>
    \A k \in 1 .. Len(xOut[1].per_topic_updates) :
      LET sig == xOut[1].per_topic_updates[k].explanation.signals_used
          turns == split_turns(text_or(xIn.transcript_text, <<>>))
      IN MatchingTurns(turns, {"Student", "Unknown", "Parent"},
                       xOut[1].per_topic_updates[k].topic_name) = {}
           => sig.attempt_count + sig.error_count + sig.independent_count
              + sig.confidence_positive + sig.confidence_negative = 0

\* A Parent turn that names fractions has been counted as an attempt.
C19_ParentCounted ==
  /\ Extracted
  /\ xIn.transcript_text = T_trial
  /\ \E k \in 1 .. Len(xOut[1].per_topic_updates) :
       /\ xOut[1].per_topic_updates[k].topic_name = "Fractions"
       /\ xOut[1].per_topic_updates[k].explanation.signals_used.attempt_count = 1

\* The previous mastery of a topic: the known row's, 15 for an unknown topic.
ActualMastery(known_topics, name) ==
  IF is_known(known_topics, name)
    THEN known_by_name(known_topics, name).mastery_score
    ELSE 15

\* The names in ascending order of previous mastery, ties by name.
ByActualMastery(known_topics, names) ==
  SortSeq(SetToSeq(names),
          LAMBDA a, b : \/ ActualMastery(known_topics, a) < ActualMastery(known_topics, b)
                        \/ /\ ActualMastery(known_topics, a) = ActualMastery(known_topics, b)
                           /\ NameRank(a) < NameRank(b))

\* What C20 says of the targets, given the known and the detected topics.
C20_Of(targets, known_topics, detected_topics) ==
  LET detected == Range(detected_topics)
      known_names == { known_topics[k].topic_name : k \in 1 .. Len(known_topics) }
      chosen == Take(ByActualMastery(known_topics, detected), 3)
      backfill == Take(ByActualMastery(known_topics, known_names \ Range(chosen)),
                       3 - Len(chosen))
  IN /\ targets = chosen \o backfill
     /\ Len(targets) = Min(3, Cardinality(detected \cup known_names))
     /\ \A j, k \in 1 .. Len(targets) : targets[j] = targets[k] => j = k

\* C20: recommended_next_targets is ordered lowest-previous-mastery first: the
\* detected topics in ascending order of their actual previous mastery (15 for
\* unknown topics), ties broken by topic name, including when a known topic's
\* stored mastery is 0; at most 3 are taken, and if fewer than 3 the list is
\* backfilled from the known topics not already chosen in the same order, so
\* the result has no duplicates and length min(3, number of distinct detected
\* or known topics).
C20_Targets ==
  Extracted =>
    C20_Of(xOut[1].recommended_next_targets, xIn.known_topics, xOut[1].detected_topics)

\* The part of C20 the code does keep: the targets are distinct, and there
\* are min(3, number of distinct detected or known topics) of them.
C20_DistinctAndCounted ==
  Extracted =>
    LET targets == xOut[1].recommended_next_targets
        known_names == { xIn.known_topics[k].topic_name : k \in 1 .. Len(xIn.known_topics) }
    IN /\ Len(targets) = Min(3, Cardinality(Range(xOut[1].detected_topics) \cup known_names))
       /\ \A j, k \in 1 .. Len(targets) : targets[j] = targets[k] => j = k

\* Fractions is known with mastery 0 and detected together with two unknown
\* topics, and it is not the first target.
C20_ZeroNotFirst ==
  /\ Extracted
  /\ xIn.transcript_text = T_trial
  /\ xIn.known_topics = << KnownTopic("Fractions", 0, 50) >>
  /\ xOut[1].recommended_next_targets = << "Equations", "Fractions", "Integers" >>


(***************************************************************************)
(* Claims about the rankings                                               *)
(***************************************************************************)
\* The scores stand in descending order of hit_count, ties by topic name.
RankedByHitsThenName(scores) ==
  \A j, k \in 1 .. Len(scores) :
    j < k => \/ scores[j].hit_count > scores[k].hit_count
             \/ /\ scores[j].hit_count = scores[k].hit_count
                /\ NameRank(scores[j].topic_name) < NameRank(scores[k].topic_name)

\* The calls of the given kind that returned a result.
ReturnedCalls(kind) ==
  { k \in 1 .. Len(calls) : calls[k].kind = kind /\ calls[k].outcome.raised = None }

\* The session's rankings (detected_topics and debug topic_scores) are in
\* descending order of hit_count, ties by topic name.
C21_SessionRankings ==
  \A k \in ReturnedCalls("session") :
    LET result == calls[k].outcome.result[1]
    IN /\ RankedByHitsThenName(result.debug.topic_scores)
       /\ result.detected_topics
            = [ j \in 1 .. Min(8, Len(result.debug.topic_scores)) |->
                  result.debug.topic_scores[j].topic_name ]

\* C21: every ranking of the most salient N topics orders topics by descending
\* hit_count with ties broken by topic name ascending: the session's
\* detected_topics (top 8) and debug topic_scores, and equally the trial
\* extractor's ranked mentioned topics (the summary's top 4 and debug top 10).
C21_Rankings ==
  /\ C21_SessionRankings
  /\ \A k \in ReturnedCalls("trial") :
       RankedByHitsThenName(calls[k].outcome.result[1].debug.topic_scores)

\* A session call has ranked two topics that tie on hit_count.
C21_SessionTie ==
  \E k \in ReturnedCalls("session") :
    calls[k].outcome.result[1].detected_topics = << "Decimals", "Equations" >>

\* A trial call has ranked the same two topics the other way round.
C21_TrialTieByParent ==
  \E k \in ReturnedCalls("trial") :
    LET scores == calls[k].outcome.result[1].debug.topic_scores
    IN /\ Len(scores) = 2
       /\ scores[1].topic_name = "Equations" /\ scores[2].topic_name = "Decimals"
       /\ scores[1].hit_count = scores[2].hit_count


(***************************************************************************)
(* Claims about the active topics                                          *)
(***************************************************************************)
\* Some counter of the accumulator is not zero.
SomeCounter(sig) == \E f \in DOMAIN sig : sig[f] # 0

\* The accumulators extract_session ends with when this step's session is
\* extracted from the store as it was before the step.
StepAccumulators ==
  session_signals(
    session_request(DB, response'.data.student_id,
                    session'[Len(session')].transcript_text,
                    session'[Len(session')].session_date),
    transcript_facts(session'[Len(session')].transcript_text,
                     lexed(session'[Len(session')].transcript_text)))

\* What C22 says of a served session, given the accumulators.
C22_Of(sig) ==
  LET ext == response'.data.session_extraction
      sid == response'.data.student_id
      keys == { ext.per_topic_updates[k].topic_name : k \in 1 .. Len(ext.per_topic_updates) }
      active == Range(ext.detected_topics) \cup { t \in DOMAIN sig : SomeCounter(sig[t]) }
  IN /\ keys = active
     /\ Cardinality(keys) = Len(ext.per_topic_updates)
     /\ { NewEvents[j].topic_name : j \in 1 .. Len(NewEvents) } = keys
     /\ \A k \in 1 .. Len(topic) :
          (topic[k].student_id # sid \/ topic[k].topic_name \notin active)
            => topic'[k] = topic[k]

C22_Step == SessionServed => C22_Of(StepAccumulators)

\* C22: the keys of per_topic_updates are exactly the active topics: every
\* topic whose accumulator has at least one non-zero counter together with
\* every topic in detected_topics.  A known topic that is not detected and
\* whose counters are all zero gets no update and no event, so the session
\* leaves its stored mastery and confidence unchanged.
C22_ActiveTopics == [][C22_Step]_vars

\* The last session updated Fractions alone for a student who also has the
\* topic Equations, still at its seed of 25 and without an event.
C22_Witness ==
  /\ SessionResponse
  /\ LET ext == response.data.session_extraction
     IN /\ Len(ext.per_topic_updates) = 1
        /\ ext.per_topic_updates[1].topic_name = "Fractions"
        /\ ext.per_topic_updates[1].new_mastery # ext.per_topic_updates[1].previous_mastery
  /\ \E k \in 1 .. Len(topic) :
       /\ topic[k].student_id = response.data.student_id
       /\ topic[k].topic_name = "Equations"
       /\ topic[k].mastery_score = MentionedSeed
  /\ \A j \in 1 .. Len(topic_mastery_event) :
       topic_mastery_event[j].topic_name # "Equations"


(***************************************************************************)
(* Claims about the repeat penalty                                         *)
(***************************************************************************)
\* The accumulators extract_session ends with on the request extracted.
Accumulators ==
  session_signals(xIn, transcript_facts(text_or(xIn.transcript_text, <<>>),
                                        lexed(text_or(xIn.transcript_text, <<>>))))

\* What C23 says of the accumulators and of the signals returned, given the
\* detected topics and misconceptions and the first ten recent sessions.
C23_Of(sig, returned, detected_topics, detected_misconceptions, window) ==
  LET repeated == Cardinality({ m \in Range(detected_misconceptions) :
                                  RecordedCount(window, m) > 0 })
  IN /\ \A t \in DOMAIN sig :
          sig[t].repeated_error_count = (IF t \in Range(detected_topics) THEN repeated ELSE 0)
     /\ \A k \in 1 .. Len(returned) :
          returned[k].signals.repeated_error_count
            = (IF returned[k].topic_name \in Range(detected_topics) THEN repeated ELSE 0)

\* C23: after extract_session the repeated_error_count of every topic in
\* detected_topics equals the number of currently detected misconceptions whose
\* label occurs in the detected_misconceptions of recent_sessions[0..9] (each
\* adds 1 to every detected topic); sessions at index 10 or later contribute
\* nothing, and topics outside detected_topics keep repeated_error_count 0.
C23_RepeatedErrors ==
  Extracted =>
    C23_Of(Accumulators, xOut[1].per_topic_signals, xOut[1].detected_topics,
           xOut[1].detected_misconceptions,
           SubSeq(xIn.recent_sessions, 1, Min(10, Len(xIn.recent_sessions))))

\* The misconception is detected again and the history records it at its 11th
\* and 26th places only: the detected topic has no repeated error.
C23_Witness ==
  /\ Extracted
  /\ xIn.recent_sessions = LongHistory({RepeatWindow + 1, BlockWindow + 1})
  /\ xIn.transcript_text = T_denominators
  /\ xOut[1].detected_misconceptions # <<>>
  /\ \E k \in 1 .. Len(xOut[1].per_topic_signals) :
       /\ xOut[1].per_topic_signals[k].topic_name = "Fractions"
       /\ xOut[1].per_topic_signals[k].signals.repeated_error_count = 0


(***************************************************************************)
(* Claims about the turns returned                                         *)
(***************************************************************************)
\* Some line that stands before every speaker-prefixed line is not blank.
TextUnderNoSpeaker ==
  \E j \in 1 .. Len(TextLines) :
    /\ ~AllSpace(TextLines[j])
    /\ \A i \in SpeakerLineIndices : j < i

\* Every turn returned has text that is not blank.
C24_NonBlankTurns ==
  Split => \A k \in 1 .. Len(tOut[1]) : ~AllSpace(tOut[1][k].text)

\* C24: every turn returned by _split_turns has non-blank text, and a turn
\* with speaker Unknown is returned only for text that stands under no
\* speaker-prefixed line: text before the first speaker line, or the whole
\* text of a transcript without a speaker-prefixed line.  In particular a
\* transcript whose only content is a speaker prefix with blank remainder
\* yields no Unknown turn.
C24_TurnsWellFormed ==
  /\ C24_NonBlankTurns
  /\ Split =>
       \A k \in 1 .. Len(tOut[1]) :
         tOut[1][k].speaker = "Unknown" => (k = 1 /\ TextUnderNoSpeaker)

\* The transcript "Tutor:" was split into one Unknown turn.
C24_PrefixOnly ==
  /\ Split
  /\ tIn = << "Tutor", ":" >>
  /\ tOut[1] = << [speaker |-> "Unknown", text |-> << "Tutor", ":" >>] >>


(***************************************************************************)
(* Claims about the signals of a topic                                     *)
(***************************************************************************)
\* The accumulators extract_session ends with on a request.
AccumulatorsOf(req) ==
  session_signals(req, transcript_facts(text_or(req.transcript_text, <<>>),
                                        lexed(text_or(req.transcript_text, <<>>))))

\* C25 as stated: there are inputs to extract_session for which the turn-level
\* independence check leaves some topic with independent_count >
\* attempt_count, so that the growth engine is called with independence > 1
\* (read over the requests of the probe, once one of them has been extracted).
C25_SomeInputExceeds ==
  Extracted =>
    \E req \in ExtractRequests :
      \E t \in DOMAIN AccumulatorsOf(req) :
        AccumulatorsOf(req)[t].independent_count > AccumulatorsOf(req)[t].attempt_count

\* C25 amended: on every input, every topic's independent_count is at most
\* its attempt_count (a turn adds to independent_count only after it has added
\* to attempt_count), so extract_session calls the growth engine with
\* independence at most 1.
C25_IndependenceAtMostOne ==
  Extracted =>
    /\ \A t \in DOMAIN Accumulators :
         Accumulators[t].independent_count <= Accumulators[t].attempt_count
    /\ \A k \in 1 .. Len(xOut[1].per_topic_updates) :
         LET e == xOut[1].per_topic_updates[k].explanation
         IN /\ e.signals_used.independent_count <= e.signals_used.attempt_count
            /\ e.derived_signals.independence[1] <= e.derived_signals.independence[2]

\* Two student answers on Fractions and a Tutor turn that reads as an answer:
\* two attempts, two independent completions, independence exactly 1.
C25_Witness ==
  /\ Extracted
  /\ xIn.transcript_text = T_answers
  /\ \E k \in 1 .. Len(xOut[1].per_topic_updates) :
       LET e == xOut[1].per_topic_updates[k].explanation
       IN /\ e.signals_used.attempt_count = 2
          /\ e.signals_used.independent_count = 2
          /\ e.derived_signals.independence[1] = e.derived_signals.independence[2]


(***************************************************************************)
(* Claims about the engagement score                                       *)
(***************************************************************************)
\* The matches of a pattern list over the whole transcript extracted.
TotalMatches(patterns) == count_any(patterns, lexed(text_or(xIn.transcript_text, <<>>)))

\* C26: engagement_score equals clamp(70 + 4*P - 6*N - 10*A, 0, 100), where P,
\* N and A are the total numbers of positive-confidence, negative-confidence
\* and avoidance pattern matches over the whole transcript (all speakers, not
\* turn-scoped); it is always an integer in 0..100 and is 70 when nothing
\* matches.
C26_Engagement ==
  Extracted =>
    LET P == TotalMatches("pos")
        N == TotalMatches("neg")
        A == TotalMatches("avoid")
        raw == 70 + 4 * P - 6 * N - 10 * A
    IN /\ xOut[1].engagement_score
            = (IF raw < 0 THEN 0 ELSE IF raw > 100 THEN 100 ELSE raw)
       /\ xOut[1].engagement_score \in 0 .. 100
       /\ (P = 0 /\ N = 0 /\ A = 0) => xOut[1].engagement_score = 70

\* Eight positive matches, all in a Tutor turn: 102 before the clamp.
C26_Witness ==
  /\ Extracted
  /\ xIn.transcript_text = T_cheer
  /\ TotalMatches("pos") = 8
  /\ xOut[1].engagement_score = 100


\* The session requests the validation refuses: a body that is not JSON, no
\* student id, a blank transcript, no session date, a student the store does
\* not have.
SessionFails(raw) ==
  \/ raw.json = <<>>
  \/ /\ raw.json # <<>>
     /\ \/ raw.json[1].student_id = 0
        \/ AllSpace(text_or(raw.json[1].transcript_text, <<>>))
        \/ raw.json[1].session_date = 0
        \/ raw.json[1].student_id \notin 1 .. Len(student)

\* The trial requests the validation refuses: a body that is not JSON, a
\* blank transcript, no session date, a blank student name.
TrialFails(raw) ==
  \/ raw.json = <<>>
  \/ /\ raw.json # <<>>
     /\ \/ AllSpace(text_or(raw.json[1].transcript_text, <<>>))
        \/ raw.json[1].session_date = 0
        \/ AllSpace(text_or(raw.json[1].student.name, <<>>))

\* What the server does with each refused request in the present state.
RefusedResults ==
  { handle_api_post_session(DB, raw, GrowthConfig, NoFP) :
      raw \in { r \in { Json(body) : body \in SessionBodies } \cup Unreadable :
                SessionFails(r) } }
  \cup { handle_api_post_trial(DB, raw) :
           raw \in { r \in { Json(body) : body \in TrialBodies } \cup Unreadable :
                     TrialFails(r) } }

\* C27 (the part that holds): a session or trial request that fails
\* validation leaves the store as it was (no student, goal, topic, session,
\* topic event or mental-block row created or modified) and makes no call on
\* the extractor: the extractor has been called once for each session row
\* stored.
C27_StoreUntouched ==
  /\ \A r \in RefusedResults : r.db = DB /\ r.extractor_calls = <<>>
  /\ Len(calls) = Len(session)

\* C27: a session or trial request that fails validation returns an error
\* response, leaves the store unchanged and does not invoke the extractor.
\* Stated for the server once it has handled a request.
C27_Rejected ==
  response # <<>> =>
    \A r \in RefusedResults :
      /\ r.response.status \in {400, 404}
      /\ "error" \in DOMAIN r.response.data
      /\ r.db = DB
      /\ r.extractor_calls = <<>>

\* A request whose body is not UTF-8 has been handled: no response was sent.
C27_Witness ==
  /\ response # <<>>
  /\ response.status = 0
  /\ response.data.raised = "UnicodeDecodeError"
  /\ Len(student) > 0


\* The seven counters of a topic's signals.
CounterNames ==
  { "attempt_count", "error_count", "repeated_error_count", "independent_count",
    "hint_count", "confidence_positive", "confidence_negative" }

\* C28: for every topic in the per_topic_signals returned by extract_session,
\* all seven counters are non-negative, error_count = confidence_negative,
\* confidence_positive <= attempt_count, and error_count + independent_count
\* <= attempt_count.
C28_Counters ==
  Extracted =>
    \A k \in 1 .. Len(xOut[1].per_topic_signals) :
      /\ \A c \in CounterNames : xOut[1].per_topic_signals[k].signals[c] \in Nat
      /\ xOut[1].per_topic_signals[k].signals.error_count
           = xOut[1].per_topic_signals[k].signals.confidence_negative
      /\ xOut[1].per_topic_signals[k].signals.confidence_positive
           <= xOut[1].per_topic_signals[k].signals.attempt_count
      /\ xOut[1].per_topic_signals[k].signals.error_count
           + xOut[1].per_topic_signals[k].signals.independent_count
           <= xOut[1].per_topic_signals[k].signals.attempt_count

\* A Student turn that reads as a final answer and is an error ("not sure
\* x = 3?") was counted for Equations as an attempt and an error and not as
\* an independent completion.
C28_Witness ==
  /\ Extracted
  /\ xIn.transcript_text = T_unsure
  /\ \E k \in 1 .. Len(xOut[1].per_topic_signals) :
       /\ xOut[1].per_topic_signals[k].topic_name = "Equations"
       /\ xOut[1].per_topic_signals[k].signals.attempt_count = 1
       /\ xOut[1].per_topic_signals[k].signals.error_count = 1
       /\ xOut[1].per_topic_signals[k].signals.independent_count = 0


\* The events of one topic of one student, in insertion order.
EventsOf(events, student_id, topic_name) ==
  SelectSeq(events, LAMBDA e : e.student_id = student_id /\ e.topic_name = topic_name)

\* Each event a session records has as previous values the scores stored for
\* its topic before the session (15 and 50 for a topic without a row) and as
\* new values the scores stored after it.
C29_Step ==
  SessionServed =>
    \A k \in 1 .. Len(NewEvents) :
      /\ NewEvents[k].previous_mastery
           = StoredScores(topic, NewEvents[k].student_id, NewEvents[k].topic_name).mastery_score
      /\ NewEvents[k].previous_confidence
           = StoredScores(topic, NewEvents[k].student_id,
                          NewEvents[k].topic_name).confidence_score
      /\ NewEvents[k].new_mastery
           = StoredScores(topic', NewEvents[k].student_id, NewEvents[k].topic_name).mastery_score
      /\ NewEvents[k].new_confidence
           = StoredScores(topic', NewEvents[k].student_id,
                          NewEvents[k].topic_name).confidence_score

\* Of two consecutive events of one topic the later starts where the earlier
\* ended, and the last one ends at the stored scores.
C29_Chained ==
  \A k \in 1 .. Len(topic_mastery_event) :
    LET e == topic_mastery_event[k]
        chain == EventsOf(topic_mastery_event, e.student_id, e.topic_name)
    IN /\ \A j \in 1 .. Len(chain) - 1 :
            /\ chain[j + 1].previous_mastery = chain[j].new_mastery
            /\ chain[j + 1].previous_confidence = chain[j].new_confidence
       /\ chain[Len(chain)].new_mastery
            = StoredScores(topic, e.student_id, e.topic_name).mastery_score
       /\ chain[Len(chain)].new_confidence
            = StoredScores(topic, e.student_id, e.topic_name).confidence_score

\* C29: mastery events form an unbroken chain per topic: with the sessions of
\* a student processed one at a time, each recorded event has
\* previous_mastery and previous_confidence equal to the topic's stored
\* scores immediately before that session (15 and 50 without a row) and
\* new_mastery and new_confidence equal to the stored scores immediately
\* after it, so the later of two consecutive events of a topic has as
\* previous values the new values of the earlier.
C29_Chain == []C29_Chained /\ [][C29_Step]_vars

\* A topic has two events, the first from 15 and 50 for a topic without a
\* row, the second from the scores the first one stored, which differ from
\* the defaults.
C29_Witness ==
  \E k \in 1 .. Len(topic_mastery_event) :
    LET e == topic_mastery_event[k]
        chain == EventsOf(topic_mastery_event, e.student_id, e.topic_name)
    IN /\ Len(chain) >= 2
       /\ chain[1].previous_mastery = DefaultMastery
       /\ chain[1].previous_confidence = DefaultConfidence
       /\ chain[2].previous_mastery = chain[1].new_mastery
       /\ chain[2].previous_mastery # DefaultMastery
       /\ chain[2].new_mastery # chain[2].previous_mastery


\* The step served a session that emitted a candidate for this description of
\* this student: the handler applies each candidate once (lines 375-386).
CandidateFor(student_id, description) ==
  /\ SessionServed
  /\ response'.data.student_id = student_id
  /\ \E j \in 1 .. Len(response'.data.session_extraction.mental_blocks_applied) :
       response'.data.session_extraction.mental_blocks_applied[j].description = description

C30_InRange ==
  \A k \in 1 .. Len(mental_block) :
    /\ mental_block[k].severity_score \in 0 .. 100
    /\ mental_block[k].frequency_count >= 1

\* Over one request: a stored block stays where it is with its student, its
\* description and its first_detected, its severity does not decrease, its
\* frequency grows by one when the session emitted a candidate for it and is
\* unchanged otherwise; a block the request creates has frequency 1.
C30_Step ==
  /\ Len(mental_block') >= Len(mental_block)
  /\ \A k \in 1 .. Len(mental_block) :
       /\ mental_block'[k].student_id = mental_block[k].student_id
       /\ mental_block'[k].description = mental_block[k].description
       /\ mental_block'[k].first_detected = mental_block[k].first_detected
       /\ mental_block'[k].severity_score >= mental_block[k].severity_score
       /\ mental_block'[k].frequency_count
            = mental_block[k].frequency_count
              + (IF CandidateFor(mental_block[k].student_id, mental_block[k].description)
                   THEN 1 ELSE 0)
  /\ \A k \in Len(mental_block) + 1 .. Len(mental_block') :
       /\ mental_block'[k].frequency_count = 1
       /\ CandidateFor(mental_block'[k].student_id, mental_block'[k].description)

\* C30: across any sequence of session submissions under the default config,
\* a stored mental block's severity_score stays in 0..100 and never
\* decreases, its frequency_count starts at 1 and grows by exactly 1 on each
\* later session that emits a candidate for its description (and is
\* unchanged by sessions that emit none), and its first_detected never
\* changes after creation.
C30_BlockHistory == []C30_InRange /\ [][C30_Step]_vars

\* A block detected in three sessions: created on one date, detected last on
\* another, its severity 50 + 30 + 30 held at 100.
C30_Witness ==
  \E k \in 1 .. Len(mental_block) :
    /\ mental_block[k].frequency_count = 3
    /\ mental_block[k].severity_score = 100
    /\ mental_block[k].first_detected # mental_block[k].last_detected

=============================================================================
